---- MODULE Spec2Model ----
(***************************************************************************)
(* A state-machine model of the storage access layer of baul              *)
(* (src-tauri/src): the listing engine, the bucket and object operations  *)
(* of S3Service, and the connection commands.  Strings whose characters   *)
(* the code inspects (paths, prefixes, error texts) are sequences of      *)
(* one-character strings; Option<T> is a sequence of length 0 or 1;       *)
(* AppResult<T> is a record tagged "Ok" or "Err".                         *)
(***************************************************************************)
EXTENDS Integers, Sequences, FiniteSets, TLC

\* ------------------------------------------------------------------ bounds
\* Longest backend entry stream handed to one listing call.
MaxEntries == 3

\* Most objects a bucket holds when its statistics are computed.
MaxObjs == 3
\* Most list_objects_v2 requests followed within one get_bucket_stats call.
MaxRequests == 4

\* Most connection ids ever handed out by Uuid::new_v4.
MaxIds == 2
\* Most connections in one import blob.
MaxImport == 2
\* Most update_connection calls in one run.
MaxUpdates == 1
\* Most keys handed to one delete_objects call.
MaxDeleteKeys == 3

\* -------------------------------------------------------- program constants
\* max_keys.unwrap_or(500)
DefaultMaxKeys == 500
\* .min(1000)
MaxKeysCeiling == 1000
\* if import.version != 1
ExportVersion == 1
\* builder.delete_max_size(700)
R2DeleteMaxSize == 700
\* max_size.unwrap_or(1024 * 1024)
DefaultMaxTextSize == 1048576

\* ----------------------------------------------------------------- helpers
None == <<>>
Some(x) == <<x>>
IsSome(o) == o # <<>>
UnwrapOr(o, d) == IF o = <<>> THEN d ELSE o[1]

Min(a, b) == IF a <= b THEN a ELSE b
Max(a, b) == IF a >= b THEN a ELSE b

SeqsUpTo(S, n) == UNION {[1..k -> S] : k \in 0..n}

\* AppResult<T>
Pending == [tag |-> "Pending", val |-> <<>>, kind |-> "", msg |-> ""]
Ok(v) == [tag |-> "Ok", val |-> v, kind |-> "", msg |-> ""]
Err(k, m) == [tag |-> "Err", val |-> <<>>, kind |-> k, msg |-> m]

\* str::ends_with('/')
EndsWithSlash(s) == Len(s) > 0 /\ s[Len(s)] = "/"

VARIABLES
  \* S3Service::list_objects
  list_pc, prefix, max_keys, prefix_with_delimiter, limit, count, lister,
  objects, prefixes, list_ret,
  \* the entries the backend serves for the call's prefix, from the first one
  listed

VARIABLES
  \* bucket operations on the AWS SDK client: create_bucket, head_bucket,
  \* get_bucket_stats
  admin_pc, admin_call, admin_req, admin_ret,
  listing, object_count, total_size, continuation_token, requests, linked

adminVars == <<admin_pc, admin_call, admin_req, admin_ret,
               listing, object_count, total_size, continuation_token, requests, linked>>

VARIABLES
  \* object operations: the bucket's objects and the command in flight
  store, obj_pc, obj_call, obj_ret, obj_calls, pre_store, size,
  \* the latest successful upload_object whose key no command has written
  \* or deleted since
  uploaded

objVars == <<store, obj_pc, obj_call, obj_ret, obj_calls, pre_store, size, uploaded>>

VARIABLES
  \* connection commands: AppState.connections, connections.json, the keyring
  connections, config_file, keyring, next_uuid,
  conn_pc, conn_call, conn_ret, pre_connections, pre_config_file,
  \* how many update_connection calls were made
  updates

connVars == <<connections, config_file, keyring, next_uuid,
              conn_pc, conn_call, conn_ret, pre_connections, pre_config_file, updates>>

listVars == <<list_pc, prefix, max_keys, prefix_with_delimiter, limit, count,
              lister, objects, prefixes, list_ret, listed>>

VARIABLES
  \* S3Service::create_operator: the call in flight and the builder it
  \* hands to Operator::new
  op_pc, op_call, builder, op_ret

opVars == <<op_pc, op_call, builder, op_ret>>

VARIABLES
  \* the bucket and object commands of the invoke handler, one per caller:
  \* whether setup has run, the holder of the state.connections mutex, and per
  \* caller the command's position, arguments, result, whether it has issued a
  \* backend call, how its backend write ended, and the progress events it emitted
  booted, connections_lock, cmd_pc, cmd_call, cmd_ret, cmd_issued, cmd_wrote, events

cmdVars == <<booted, connections_lock, cmd_pc, cmd_call, cmd_ret, cmd_issued, cmd_wrote, events>>

VARIABLES
  \* the connection commands of two callers, step by step: per caller the
  \* command's position, its arguments and locals, and the map
  \* ConfigService::load_connections handed it
  save_pc, save_call, loaded

saveVars == <<save_pc, save_call, loaded>>

vars == <<listVars, adminVars, objVars, connVars, opVars, cmdVars, saveVars>>

\* what a command of one component leaves alone: the other components' state
nonListVars == <<adminVars, objVars, connVars, opVars, cmdVars, saveVars>>
nonAdminVars == <<listVars, objVars, connVars, opVars, cmdVars, saveVars>>
nonObjVars == <<listVars, adminVars, connVars, opVars, cmdVars, saveVars>>
nonConnVars == <<listVars, adminVars, objVars, opVars, cmdVars, saveVars>>
nonOpVars == <<listVars, adminVars, objVars, connVars, cmdVars, saveVars>>
\* the service calls behind a bucket or object command are modelled above
nonCmdVars == <<listVars, adminVars, objVars, opVars, saveVars>>
\* what besides the registry belongs to the connection commands
connRest == <<config_file, keyring, next_uuid, conn_pc, conn_call, conn_ret,
              pre_connections, pre_config_file, updates>>

\* ------------------------------------------------------------ listing engine
\* The entries a backend stream is made of: a plain object, an entry whose
\* metadata marks it a directory, a key that only ends with '/', and an
\* object without a last-modified time.
EntryPool ==
  { [path |-> <<"a">>, is_dir |-> FALSE, content_length |-> 1, last_modified |-> Some(7)],
    [path |-> <<"d">>, is_dir |-> TRUE, content_length |-> 0, last_modified |-> None],
    [path |-> <<"d", "/">>, is_dir |-> FALSE, content_length |-> 0, last_modified |-> Some(9)],
    [path |-> <<"b">>, is_dir |-> FALSE, content_length |-> 2, last_modified |-> None] }

Streams == SeqsUpTo(EntryPool, MaxEntries)

Prefixes == { <<>>, <<"d">>, <<"d", "/">> }

MaxKeysInputs == {None} \cup {Some(n) : n \in (0..MaxEntries) \cup {999, 1000, 1001, 2000}}

\* prefix_with_delimiter
PrefixWithDelimiter(p) ==
  IF p = <<>> THEN <<>>
  ELSE IF EndsWithSlash(p) THEN p
  ELSE p \o <<"/">>

\* let limit = max_keys.unwrap_or(500).min(1000) as usize
EffectiveLimit(mk) == Min(UnwrapOr(mk, DefaultMaxKeys), MaxKeysCeiling)

\* a limit check that never fires
LimitReachedNever(c, l) == FALSE
\* a limit check that lets one entry too many through
LimitReachedLate(c, l) == c > l
\* a limit check that stops one entry short of the limit
LimitReachedEarly(c, l) == c + 1 >= l
\* if count >= limit
LimitReached(c, l) == c >= l

\* format!("offset:{}", count)
OffsetToken(c) == <<"offset:", c>>

\* a classification by the metadata alone
IsPrefixEntryByMeta(e) == e.is_dir
\* meta.is_dir() || path.ends_with('/')
IsPrefixEntry(e) == e.is_dir \/ EndsWithSlash(e.path)

\* S3Object built from an entry
ToS3Object(e) ==
  [key |-> e.path, size |-> e.content_length,
   last_modified |-> UnwrapOr(e.last_modified, 0), is_directory |-> FALSE]

ListObjectsResult(objs, pfx, token, trunc) ==
  [objects |-> objs, prefixes |-> pfx, continuation_token |-> token, is_truncated |-> trunc]

\* list_all_objects: meta.is_dir() || path.ends_with('/')
IsPrefixEntryAll(e) == e.is_dir \/ EndsWithSlash(e.path)

\* list_all_objects: `while let Some(entry) = lister.try_next().await?` run to
\* the end of the stream
RECURSIVE ListAllLoop(_, _, _)
ListAllLoop(entries, objs, pfx) ==
  IF entries = <<>>
    THEN ListObjectsResult(objs, pfx, None, FALSE)
    ELSE IF IsPrefixEntryAll(Head(entries))
    THEN ListAllLoop(Tail(entries), objs, Append(pfx, Head(entries).path))
    ELSE ListAllLoop(Tail(entries), Append(objs, ToS3Object(Head(entries))), pfx)

\* list_all_objects on a stream the backend serves to its end
ListAllObjects(stream) == Ok(ListAllLoop(stream, <<>>, <<>>))

ListInit ==
  /\ list_pc = "idle"
  /\ listed = <<>>
  /\ prefix = <<>>
  /\ max_keys = None
  /\ prefix_with_delimiter = <<>>
  /\ limit = 0
  /\ count = 0
  /\ lister = <<>>
  /\ objects = <<>>
  /\ prefixes = <<>>
  /\ list_ret = Pending

\* list_objects up to and including operator.lister_with(..).await?
ListObjects(p, mk, stream, backend_ok) ==
  /\ list_pc = "idle"
  /\ UNCHANGED nonListVars
  /\ prefix' = p
  /\ max_keys' = mk
  /\ prefix_with_delimiter' = PrefixWithDelimiter(p)
  /\ limit' = EffectiveLimit(mk)
  /\ count' = 0
  /\ objects' = <<>>
  /\ prefixes' = <<>>
  /\ IF backend_ok
       THEN /\ lister' = stream
            /\ listed' = stream
            /\ list_pc' = "loop"
            /\ list_ret' = Pending
       ELSE /\ lister' = <<>>
            /\ listed' = <<>>
            /\ list_pc' = "done"
            /\ list_ret' = Err("OpendalError", "backend")

\* one turn of `while let Some(entry) = lister.try_next().await?`
ListTryNext(backend_ok) ==
  /\ list_pc = "loop"
  /\ UNCHANGED nonListVars
  /\ UNCHANGED <<prefix, max_keys, prefix_with_delimiter, limit, listed>>
  /\ IF ~backend_ok
       THEN /\ list_ret' = Err("OpendalError", "backend")
            /\ list_pc' = "done"
            /\ UNCHANGED <<count, lister, objects, prefixes>>
       ELSE IF lister = <<>>
       THEN /\ list_ret' = Ok(ListObjectsResult(objects, prefixes, None, FALSE))
            /\ list_pc' = "done"
            /\ UNCHANGED <<count, lister, objects, prefixes>>
       ELSE IF LimitReached(count, limit)
       THEN /\ list_ret' = Ok(ListObjectsResult(objects, prefixes, Some(OffsetToken(count)), TRUE))
            /\ list_pc' = "done"
            /\ UNCHANGED <<count, lister, objects, prefixes>>
       ELSE /\ lister' = Tail(lister)
            /\ IF IsPrefixEntry(Head(lister))
                 THEN /\ prefixes' = Append(prefixes, Head(lister).path)
                      /\ UNCHANGED objects
                 ELSE /\ objects' = Append(objects, ToS3Object(Head(lister)))
                      /\ UNCHANGED prefixes
            /\ count' = count + 1
            /\ UNCHANGED <<list_pc, list_ret>>

\* the call has returned: its locals are dropped
ListReturn ==
  /\ list_pc = "done"
  /\ UNCHANGED nonListVars
  /\ list_pc' = "idle"
  /\ prefix' = <<>>
  /\ max_keys' = None
  /\ prefix_with_delimiter' = <<>>
  /\ limit' = 0
  /\ count' = 0
  /\ lister' = <<>>
  /\ listed' = <<>>
  /\ objects' = <<>>
  /\ prefixes' = <<>>
  /\ list_ret' = Pending

\* ListObjects on any input, when no command of the component is in flight
ListObjectsCommand ==
  /\ list_pc = "idle"
  /\ \E p \in Prefixes, mk \in MaxKeysInputs, s \in Streams, b \in BOOLEAN :
       ListObjects(p, mk, s, b)

ListNext ==
  \/ ListReturn
  \/ ListObjectsCommand
  \/ \E b \in BOOLEAN : ListTryNext(b)


\* ---------------------------------------------------------- bucket operations
Regions == {"us-east-1", "eu-west-1", "US-EAST-1", ""}
BucketNames == {"logs", "media"}

\* BucketLocationConstraint::from(region_str): a known variant or Unknown(s)
KnownConstraints == {"eu-west-1"}
LocationConstraintFrom(r) ==
  IF r \in KnownConstraints THEN [variant |-> "Known", name |-> r]
  ELSE [variant |-> "Unknown", name |-> r]
\* BucketLocationConstraint::as_str, what the request carries on the wire
ConstraintAsStr(c) == c.name

\* a region choice that ignores the explicit argument
EffectiveRegionOfConnection(conn_region, region) == conn_region
\* let region_str = region.unwrap_or(&connection.region)
EffectiveRegion(conn_region, region) == UnwrapOr(region, conn_region)

\* the CreateBucket request built for region_str
CreateBucketRequest(bucket_name, region_str) ==
  IF region_str = "us-east-1"
    THEN [bucket |-> bucket_name, location_constraint |-> None]
    ELSE [bucket |-> bucket_name,
          location_constraint |-> Some(ConstraintAsStr(LocationConstraintFrom(region_str)))]

\* The texts e.to_string() may give for a failed HeadBucket call.
ErrTexts ==
  { <<"s", "e", "r", "v", "i", "c", "e", " ", "e", "r", "r", "o", "r">>,
    <<"N", "o", "t", "F", "o", "u", "n", "d">>,
    <<"H", "T", "T", "P", " ", "4", "0", "4">>,
    <<"4", "0", "3", " ", "i", "d", "=", "A", "4", "0", "4", "F">>,
    <<"4", "0", "3", " ", "d", "e", "n", "i", "e", "d">> }

\* What the backend answers to HeadBucket: success, or a failure of a class
\* (not-found or anything else) with its text.
HeadOutcomes ==
  {[ok |-> TRUE, class |-> "", text |-> <<>>]}
    \cup {[ok |-> FALSE, class |-> c, text |-> t] : c \in {"NotFound", "Other"}, t \in ErrTexts}

\* str::contains
Contains(s, sub) ==
  \E i \in 0..(Len(s) - Len(sub)) : SubSeq(s, i + 1, i + Len(sub)) = sub

\* err_str.contains("404") || err_str.contains("NotFound")
LooksNotFound(err_str) ==
  \/ Contains(err_str, <<"4", "0", "4">>)
  \/ Contains(err_str, <<"N", "o", "t", "F", "o", "u", "n", "d">>)

\* the match of S3Service::head_bucket on the backend's answer
HeadBucketResult(outcome) ==
  IF outcome.ok THEN Ok(TRUE)
  ELSE IF LooksNotFound(outcome.text) THEN Ok(FALSE)
  ELSE Err("S3Error", outcome.text)

\* Object sizes as ListObjectsV2 reports them (size is optional).
SizePool == {None, Some(0), Some(2), Some(5)}
Listings == SeqsUpTo(SizePool, MaxObjs)

RECURSIVE SumSizes(_)
\* total_size += object.size().unwrap_or(0) over a page
SumSizes(page) ==
  IF page = <<>> THEN 0 ELSE UnwrapOr(Head(page), 0) + SumSizes(Tail(page))

\* a count that is overwritten by each page instead of accumulated
CountPageOverwrite(c, page) == Len(page)
\* object_count += 1 for every object of the page
CountPage(c, page) == c + Len(page)
\* total_size += size for every object of the page
SizePage(t, page) == t + SumSizes(page)

\* where the backend resumes for the token the request carries
TokenStart(token) == UnwrapOr(token, 0)

\* if result.is_truncated() == Some(true) { token = next_continuation_token } else { break }
StatsContinues(is_truncated) == is_truncated = Some(TRUE)

BucketStats(name, c, t) == [name |-> name, object_count |-> c, total_size |-> t]

\* a failed page answered with the counts gathered so far
StatsFailurePartial(name, c, t) == Ok(BucketStats(name, c, t))
\* .send().await.map_err(|e| AppError::S3Error(e.to_string()))?: what the call
\* returns when a page's request fails, having gathered c objects of t bytes
StatsFailure(name, c, t) == Err("S3Error", "backend")

NoCall == [op |-> "none"]
NoReq == [bucket |-> "", location_constraint |-> None]

AdminInit ==
  /\ admin_pc = "idle"
  /\ admin_call = NoCall
  /\ admin_req = NoReq
  /\ admin_ret = Pending
  /\ listing = <<>>
  /\ object_count = 0
  /\ total_size = 0
  /\ continuation_token = None
  /\ requests = 0
  /\ linked = TRUE

\* S3Service::create_bucket
CreateBucket(conn_region, bucket_name, region, backend_ok) ==
  /\ admin_pc = "idle"
  /\ UNCHANGED nonAdminVars
  /\ admin_call' = [op |-> "create_bucket", conn_region |-> conn_region,
                    bucket_name |-> bucket_name, region |-> region]
  /\ admin_req' = CreateBucketRequest(bucket_name, EffectiveRegion(conn_region, region))
  /\ admin_ret' = IF backend_ok THEN Ok(<<>>) ELSE Err("S3Error", "backend")
  /\ admin_pc' = "done"
  /\ UNCHANGED <<listing, object_count, total_size, continuation_token, requests, linked>>

\* S3Service::head_bucket
HeadBucket(bucket_name, outcome) ==
  /\ admin_pc = "idle"
  /\ UNCHANGED nonAdminVars
  /\ admin_call' = [op |-> "head_bucket", bucket_name |-> bucket_name, outcome |-> outcome]
  /\ admin_ret' = HeadBucketResult(outcome)
  /\ admin_pc' = "done"
  /\ UNCHANGED <<admin_req, listing, object_count, total_size, continuation_token,
                 requests, linked>>

\* get_bucket_stats up to the loop; `objs` is what the bucket holds
GetBucketStats(bucket_name, objs) ==
  /\ admin_pc = "idle"
  /\ UNCHANGED nonAdminVars
  /\ admin_call' = [op |-> "get_bucket_stats", bucket_name |-> bucket_name, failed_page |-> 0]
  /\ listing' = objs
  /\ object_count' = 0
  /\ total_size' = 0
  /\ continuation_token' = None
  /\ requests' = 0
  /\ linked' = TRUE
  /\ admin_pc' = "stats_loop"
  /\ UNCHANGED <<admin_req, admin_ret>>

\* One turn of the loop: the request carries continuation_token.take(); the
\* backend answers with the next k objects.  A page that is not the last is
\* truncated and carries the next token, or (has_token = FALSE) carries none.
StatsPage(k, has_token, backend_ok) ==
  /\ admin_pc = "stats_loop"
  /\ UNCHANGED nonAdminVars
  /\ requests < MaxRequests
  /\ requests' = requests + 1
  /\ admin_call' = IF backend_ok THEN admin_call
                   ELSE [admin_call EXCEPT !.failed_page = requests + 1]
  /\ UNCHANGED <<admin_req, listing>>
  /\ LET start == TokenStart(continuation_token)
         page == SubSeq(listing, start + 1, start + k)
         is_truncated == Some(start + k < Len(listing))
         next_token == IF start + k < Len(listing) /\ has_token THEN Some(start + k) ELSE None
     IN /\ start + k <= Len(listing)
        /\ IF ~backend_ok
             THEN /\ admin_ret' = StatsFailure(admin_call.bucket_name, object_count, total_size)
                  /\ admin_pc' = "done"
                  /\ continuation_token' = None
                  /\ UNCHANGED <<object_count, total_size, linked>>
             ELSE /\ object_count' = CountPage(object_count, page)
                  /\ total_size' = SizePage(total_size, page)
                  /\ IF StatsContinues(is_truncated)
                       THEN /\ continuation_token' = next_token
                            /\ linked' = (linked /\ IsSome(next_token))
                            /\ UNCHANGED <<admin_pc, admin_ret>>
                       ELSE /\ continuation_token' = None
                            /\ admin_ret' = Ok(BucketStats(admin_call.bucket_name,
                                                  CountPage(object_count, page),
                                                  SizePage(total_size, page)))
                            /\ admin_pc' = "done"
                            /\ UNCHANGED linked

\* the call has returned: its locals are dropped
AdminReturn ==
  /\ admin_pc = "done"
  /\ UNCHANGED nonAdminVars
  /\ admin_pc' = "idle"
  /\ admin_call' = NoCall
  /\ admin_req' = NoReq
  /\ admin_ret' = Pending
  /\ listing' = <<>>
  /\ object_count' = 0
  /\ total_size' = 0
  /\ continuation_token' = None
  /\ requests' = 0
  /\ linked' = TRUE

\* CreateBucket on any input, when no command of the component is in flight
CreateBucketCommand ==
  /\ admin_pc = "idle"
  /\ \E cr \in Regions, n \in BucketNames, r \in {None} \cup {Some(x) : x \in Regions},
        b \in BOOLEAN : CreateBucket(cr, n, r, b)

\* HeadBucket on any input, when no command of the component is in flight
HeadBucketCommand ==
  /\ admin_pc = "idle"
  /\ \E n \in BucketNames, o \in HeadOutcomes : HeadBucket(n, o)

\* GetBucketStats on any input, when no command of the component is in flight
GetBucketStatsCommand ==
  /\ admin_pc = "idle"
  /\ \E n \in BucketNames, objs \in Listings : GetBucketStats(n, objs)

AdminNext ==
  \/ AdminReturn
  \/ CreateBucketCommand
  \/ HeadBucketCommand
  \/ GetBucketStatsCommand
  \/ \E k \in 0..MaxObjs, t \in BOOLEAN, b \in BOOLEAN : StatsPage(k, t, b)


\* ----------------------------------------------------------- object operations
Keys == { <<"a">>, <<"b">>, <<"d", "/", "c">> }

\* Object bodies, as bytes: empty, "hi", U+00E9, a lead byte cut short, a byte
\* that never occurs in UTF-8 followed by "AA", U+20AC.
Bodies ==
  { <<>>, <<104, 105>>, <<195, 169>>, <<195>>, <<255, 65, 65>>, <<226, 130, 172>> }

\* Paths handed to create_folder, without and with the trailing '/'.
FolderPaths == { <<"a">>, <<"a", "/">> }

\* a folder key that is the path as given
FolderPathAsGiven(path) == path
\* let folder_path = if path.ends_with('/') { path } else { format!("{}/", path) }
FolderPath(path) == IF EndsWithSlash(path) THEN path ELSE path \o <<"/">>

\* every key the bucket is observed at
ObjectKeys == Keys \cup {FolderPath(p) : p \in FolderPaths}

MaxSizeInputs == {None} \cup {Some(n) : n \in 0..3}

IsCont(b) == b >= 128 /\ b <= 191

RECURSIVE Utf8Valid(_)
\* String::from_utf8: the bytes are well-formed UTF-8
Utf8Valid(bs) ==
  IF bs = <<>> THEN TRUE
  ELSE LET b == bs[1]
           n == Len(bs)
       IN IF b < 128 THEN Utf8Valid(Tail(bs))
          ELSE IF b >= 194 /\ b <= 223
            THEN n >= 2 /\ IsCont(bs[2]) /\ Utf8Valid(SubSeq(bs, 3, n))
          ELSE IF b >= 224 /\ b <= 239
            THEN /\ n >= 3
                 /\ IsCont(bs[2])
                 /\ b = 224 => bs[2] >= 160
                 /\ b = 237 => bs[2] <= 159
                 /\ IsCont(bs[3])
                 /\ Utf8Valid(SubSeq(bs, 4, n))
          ELSE IF b >= 240 /\ b <= 244
            THEN /\ n >= 4
                 /\ IsCont(bs[2])
                 /\ b = 240 => bs[2] >= 144
                 /\ b = 244 => bs[2] <= 143
                 /\ IsCont(bs[3])
                 /\ IsCont(bs[4])
                 /\ Utf8Valid(SubSeq(bs, 5, n))
          ELSE FALSE

\* meta.content_length() of an object that exists
ContentLength(obj) == Len(obj[1])

\* a delete that removes nothing
StoreAfterDeleteNothing(st, key) == st
\* the bucket after operator.delete(key): deleting a missing key is no error
StoreAfterDelete(st, key) == [st EXCEPT ![key] = None]
\* the bucket after a CopyObject of src onto dst
StoreAfterCopy(st, src, dst) == [st EXCEPT ![dst] = st[src]]
\* a write that leaves an existing object alone
StoreAfterWriteIfAbsent(st, key, data) ==
  IF st[key] = None THEN [st EXCEPT ![key] = Some(data)] ELSE st
\* the bucket after operator.write(key, data)
StoreAfterWrite(st, key, data) == [st EXCEPT ![key] = Some(data)]

\* a backend call and how it ended, as the command's history
Call(name, key, ok) == [call |-> name, key |-> key, ok |-> ok]

\* if size > max_size
TooLarge(sz, max) == sz > max

\* the upload on record once `key` has been written or deleted
Forget(up, key) == IF up # None /\ up[1].key = key THEN None ELSE up

\* the key a rollback would delete
RenameDest(old_key, new_key) == new_key
\* Self::delete_object(&operator, old_key): the key rename_object deletes
RenameSource(old_key, new_key) == old_key

ObjInit ==
  /\ store = [k \in ObjectKeys |-> None]
  /\ obj_pc = "idle"
  /\ obj_call = NoCall
  /\ obj_ret = Pending
  /\ obj_calls = <<>>
  /\ pre_store = store
  /\ size = 0
  /\ uploaded = None

\* S3Service::upload_object
UploadObject(key, data, backend_ok) ==
  /\ obj_pc = "idle"
  /\ UNCHANGED nonObjVars
  /\ obj_call' = [op |-> "upload_object", key |-> key, data |-> data]
  /\ pre_store' = store
  /\ obj_calls' = <<Call("write", key, backend_ok)>>
  /\ store' = IF backend_ok THEN StoreAfterWrite(store, key, data) ELSE store
  /\ obj_ret' = IF backend_ok THEN Ok(<<>>) ELSE Err("OpendalError", "backend")
  /\ obj_pc' = "done"
  /\ uploaded' = IF backend_ok THEN Some([key |-> key, data |-> data]) ELSE uploaded
  /\ UNCHANGED size

\* S3Service::download_object
DownloadObject(key, backend_ok) ==
  /\ obj_pc = "idle"
  /\ UNCHANGED nonObjVars
  /\ obj_call' = [op |-> "download_object", key |-> key]
  /\ pre_store' = store
  /\ obj_calls' = <<Call("read", key, backend_ok /\ store[key] # None)>>
  /\ obj_ret' = IF backend_ok /\ store[key] # None
                  THEN Ok(store[key][1])
                  ELSE Err("OpendalError", "backend")
  /\ obj_pc' = "done"
  /\ UNCHANGED <<store, size, uploaded>>

\* S3Service::create_folder
CreateFolder(path, backend_ok) ==
  /\ obj_pc = "idle"
  /\ UNCHANGED nonObjVars
  /\ obj_call' = [op |-> "create_folder", path |-> path]
  /\ pre_store' = store
  /\ obj_calls' = <<Call("write", FolderPath(path), backend_ok)>>
  /\ store' = IF backend_ok THEN StoreAfterWrite(store, FolderPath(path), <<>>) ELSE store
  /\ obj_ret' = IF backend_ok THEN Ok(<<>>) ELSE Err("OpendalError", "backend")
  /\ obj_pc' = "done"
  /\ uploaded' = IF backend_ok THEN Forget(uploaded, FolderPath(path)) ELSE uploaded
  /\ UNCHANGED size

\* S3Service::delete_object
DeleteObject(key, backend_ok) ==
  /\ obj_pc = "idle"
  /\ UNCHANGED nonObjVars
  /\ obj_call' = [op |-> "delete_object", key |-> key]
  /\ pre_store' = store
  /\ obj_calls' = <<Call("delete", key, backend_ok)>>
  /\ store' = IF backend_ok THEN StoreAfterDelete(store, key) ELSE store
  /\ obj_ret' = IF backend_ok THEN Ok(<<>>) ELSE Err("OpendalError", "backend")
  /\ obj_pc' = "done"
  /\ uploaded' = IF backend_ok THEN Forget(uploaded, key) ELSE uploaded
  /\ UNCHANGED size

\* the backend carries out a CopyObject when it is reachable and the source exists
CopySucceeds(st, src, backend_ok) == backend_ok /\ st[src] # None

\* S3Service::copy_object within one bucket
CopyObject(src, dst, backend_ok) ==
  /\ obj_pc = "idle"
  /\ UNCHANGED nonObjVars
  /\ obj_call' = [op |-> "copy_object", source_key |-> src, dest_key |-> dst]
  /\ pre_store' = store
  /\ obj_calls' = <<Call("copy", src, CopySucceeds(store, src, backend_ok))>>
  /\ store' = IF CopySucceeds(store, src, backend_ok) THEN StoreAfterCopy(store, src, dst) ELSE store
  /\ obj_ret' = IF CopySucceeds(store, src, backend_ok) THEN Ok(<<>>) ELSE Err("S3Error", "backend")
  /\ obj_pc' = "done"
  /\ uploaded' = IF CopySucceeds(store, src, backend_ok) THEN Forget(uploaded, dst) ELSE uploaded
  /\ UNCHANGED size

\* rename_object: Self::copy_object(connection, bucket, old_key, bucket, new_key).await?
RenameObject(old_key, new_key, backend_ok) ==
  /\ obj_pc = "idle"
  /\ UNCHANGED nonObjVars
  /\ obj_call' = [op |-> "rename_object", old_key |-> old_key, new_key |-> new_key]
  /\ pre_store' = store
  /\ obj_calls' = <<Call("copy", old_key, CopySucceeds(store, old_key, backend_ok))>>
  /\ IF CopySucceeds(store, old_key, backend_ok)
       THEN /\ store' = StoreAfterCopy(store, old_key, new_key)
            /\ obj_pc' = "rename_copied"
            /\ obj_ret' = Pending
       ELSE /\ store' = store
            /\ obj_pc' = "done"
            /\ obj_ret' = Err("S3Error", "backend")
  /\ uploaded' = IF CopySucceeds(store, old_key, backend_ok)
                   THEN Forget(uploaded, new_key) ELSE uploaded
  /\ UNCHANGED size

\* rename_object after the copy: Self::create_operator(connection, bucket)?,
\* then Self::delete_object(&operator, old_key).await?; Ok(())
RenameDelete(operator_ok, backend_ok) ==
  /\ obj_pc = "rename_copied"
  /\ UNCHANGED nonObjVars
  /\ IF ~operator_ok
       THEN /\ obj_ret' = Err("OpendalError", "operator")
            /\ UNCHANGED <<obj_calls, store, uploaded>>
       ELSE LET key == RenameSource(obj_call.old_key, obj_call.new_key)
            IN /\ obj_calls' = Append(obj_calls, Call("delete", key, backend_ok))
               /\ store' = IF backend_ok THEN StoreAfterDelete(store, key) ELSE store
               /\ uploaded' = IF backend_ok THEN Forget(uploaded, key) ELSE uploaded
               /\ obj_ret' = IF backend_ok THEN Ok(<<>>) ELSE Err("OpendalError", "backend")
  /\ obj_pc' = "done"
  /\ UNCHANGED <<obj_call, pre_store, size>>

\* get_object_text and get_object_content_as_text up to the size check
GetObjectText(key, max_size, backend_ok) ==
  /\ obj_pc = "idle"
  /\ UNCHANGED nonObjVars
  /\ obj_call' = [op |-> "get_object_text", key |-> key,
                  max_size |-> UnwrapOr(max_size, DefaultMaxTextSize)]
  /\ pre_store' = store
  /\ obj_calls' = <<Call("stat", key, backend_ok /\ store[key] # None)>>
  /\ UNCHANGED <<store, uploaded>>
  /\ IF ~(backend_ok /\ store[key] # None)
       THEN /\ obj_ret' = Err("OpendalError", "backend")
            /\ obj_pc' = "done"
            /\ UNCHANGED size
       ELSE /\ size' = ContentLength(store[key])
            /\ IF TooLarge(ContentLength(store[key]), UnwrapOr(max_size, DefaultMaxTextSize))
                 THEN /\ obj_ret' = Err("S3Error", "File too large for text preview")
                      /\ obj_pc' = "done"
                 ELSE /\ obj_ret' = Pending
                      /\ obj_pc' = "text_read"

\* get_object_content_as_text: operator.read(key).await? and String::from_utf8
GetObjectTextRead(backend_ok) ==
  /\ obj_pc = "text_read"
  /\ UNCHANGED nonObjVars
  /\ obj_calls' = Append(obj_calls, Call("read", obj_call.key, backend_ok /\ store[obj_call.key] # None))
  /\ obj_ret' = IF ~(backend_ok /\ store[obj_call.key] # None)
                  THEN Err("OpendalError", "backend")
                ELSE IF Utf8Valid(store[obj_call.key][1])
                  THEN Ok(store[obj_call.key][1])
                ELSE Err("S3Error", "Not a valid UTF-8 text file")
  /\ obj_pc' = "done"
  /\ UNCHANGED <<store, obj_call, pre_store, size, uploaded>>

\* upload_object of another command on the key being previewed, landing
\* between the stat and the read of get_object_content_as_text (commands run
\* concurrently and hold no lock during backend calls)
OverwriteDuringRead(data) ==
  /\ obj_pc = "text_read"
  /\ UNCHANGED nonObjVars
  /\ store' = StoreAfterWrite(store, obj_call.key, data)
  /\ uploaded' = Some([key |-> obj_call.key, data |-> data])
  /\ UNCHANGED <<obj_pc, obj_call, obj_ret, obj_calls, pre_store, size>>

\* the keys delete_objects is called with
DeleteKeys == { <<"a">>, <<"b">> }
DeleteLists == SeqsUpTo(DeleteKeys, MaxDeleteKeys)

\* a loop that walks the keys from the last one
NextKeyReversed(keys, i) == keys[Len(keys) + 1 - i]
\* for key in &keys: the key of the i-th turn
NextKey(keys, i) == keys[i]

\* delete_objects from S3Service::create_operator(&connection, &bucket)? up to
\* the loop
DeleteObjects(keys, operator_ok) ==
  /\ obj_pc = "idle"
  /\ UNCHANGED nonObjVars
  /\ obj_call' = [op |-> "delete_objects", keys |-> keys, deleted_count |-> 0]
  /\ pre_store' = store
  /\ obj_calls' = <<>>
  /\ UNCHANGED <<store, uploaded, size>>
  /\ IF ~operator_ok
       THEN /\ obj_ret' = Err("OpendalError", "operator")
            /\ obj_pc' = "done"
       ELSE IF keys = <<>>
       THEN /\ obj_ret' = Ok(<<>>)
            /\ obj_pc' = "done"
       ELSE /\ obj_ret' = Pending
            /\ obj_pc' = "delete_loop"

\* one turn of `for key in &keys`: match S3Service::delete_object(..).await;
\* after the last key the function returns Ok(())
DeleteObjectsNext(backend_ok) ==
  /\ obj_pc = "delete_loop"
  /\ UNCHANGED nonObjVars
  /\ LET key == NextKey(obj_call.keys, Len(obj_calls) + 1)
     IN /\ obj_calls' = Append(obj_calls, Call("delete", key, backend_ok))
        /\ IF backend_ok
             THEN /\ store' = StoreAfterDelete(store, key)
                  /\ uploaded' = Forget(uploaded, key)
                  /\ obj_call' = [obj_call EXCEPT !.deleted_count = @ + 1]
                  /\ IF Len(obj_calls) + 1 = Len(obj_call.keys)
                       THEN obj_ret' = Ok(<<>>) /\ obj_pc' = "done"
                       ELSE UNCHANGED <<obj_ret, obj_pc>>
             ELSE /\ obj_ret' = Err("OpendalError", "backend")
                  /\ obj_pc' = "done"
                  /\ UNCHANGED <<store, uploaded, obj_call>>
  /\ UNCHANGED <<pre_store, size>>

\* the call has returned: its locals are dropped
ObjReturn ==
  /\ obj_pc = "done"
  /\ UNCHANGED nonObjVars
  /\ obj_pc' = "idle"
  /\ obj_call' = NoCall
  /\ obj_ret' = Pending
  /\ obj_calls' = <<>>
  /\ pre_store' = store
  /\ size' = 0
  /\ UNCHANGED <<store, uploaded>>

\* UploadObject on any input, when no command of the component is in flight
UploadObjectCommand ==
  /\ obj_pc = "idle"
  /\ \E k \in Keys, d \in Bodies, b \in BOOLEAN : UploadObject(k, d, b)

\* DownloadObject on any input, when no command of the component is in flight
DownloadObjectCommand ==
  /\ obj_pc = "idle"
  /\ \E k \in Keys, b \in BOOLEAN : DownloadObject(k, b)

\* CreateFolder on any input, when no command of the component is in flight
CreateFolderCommand ==
  /\ obj_pc = "idle"
  /\ \E p \in FolderPaths, b \in BOOLEAN : CreateFolder(p, b)

\* DeleteObject on any input, when no command of the component is in flight
DeleteObjectCommand ==
  /\ obj_pc = "idle"
  /\ \E k \in ObjectKeys, b \in BOOLEAN : DeleteObject(k, b)

\* CopyObject on any input, when no command of the component is in flight
CopyObjectCommand ==
  /\ obj_pc = "idle"
  /\ \E s \in Keys, d \in Keys, b \in BOOLEAN : CopyObject(s, d, b)

\* RenameObject on any input, when no command of the component is in flight
RenameObjectCommand ==
  /\ obj_pc = "idle"
  /\ \E o \in Keys, n \in Keys, b \in BOOLEAN : RenameObject(o, n, b)

\* GetObjectText on any input, when no command of the component is in flight
GetObjectTextCommand ==
  /\ obj_pc = "idle"
  /\ \E k \in Keys, m \in MaxSizeInputs, b \in BOOLEAN : GetObjectText(k, m, b)

ObjNext ==
  \/ ObjReturn
  \/ UploadObjectCommand
  \/ DownloadObjectCommand
  \/ CreateFolderCommand
  \/ DeleteObjectCommand
  \/ CopyObjectCommand
  \/ RenameObjectCommand
  \/ \E o \in BOOLEAN, b \in BOOLEAN : RenameDelete(o, b)
  \/ GetObjectTextCommand
  \/ \E b \in BOOLEAN : GetObjectTextRead(b)
  \/ \E d \in Bodies : OverwriteDuringRead(d)

\* DeleteObjects on any input, when no command of the component is in flight
DeleteObjectsCommand ==
  /\ obj_pc = "idle"
  /\ \E ks \in DeleteLists, o \in BOOLEAN : DeleteObjects(ks, o)

\* delete_objects on a bucket that uploads fill
DeleteNext ==
  \/ ObjReturn
  \/ UploadObjectCommand
  \/ DeleteObjectsCommand
  \/ \E b \in BOOLEAN : DeleteObjectsNext(b)


\* --------------------------------------------------------- connection commands
\* the name connections are created and exported under; update_connection
\* renames to "test"
Names == {"prod"}
Secrets == {"s3cr3t"}

\* ExportedConnection: what an export blob holds of a connection
ExportedPool ==
  { [name |-> n, provider |-> "custom", endpoint |-> "https://s3.local",
     region |-> "us-east-1", access_key |-> "AKIA", use_ssl |-> TRUE,
     use_path_style |-> TRUE] : n \in Names }

\* serde_json::from_str::<ConnectionExport>(&json_data): a blob that does not
\* parse, or its version and connections
Blobs ==
  {[valid |-> FALSE, version |-> 0, connections |-> <<>>]}
    \cup {[valid |-> TRUE, version |-> v, connections |-> c] :
            v \in 0..2, c \in SeqsUpTo(ExportedPool, MaxImport)}

\* how the file system answers one load-modify-write of connections.json
FsOutcomes == {"ok", "load_fails", "save_fails"}

\* a conversion that keeps the record as it is
ToS3ConnectionWithSecret(c) == c
\* impl From<S3ConnectionWithSecret> for S3Connection: every field but secret_key
ToS3Connection(c) == [f \in DOMAIN c \ {"secret_key"} |-> c[f]]

\* HashMap::insert
MapInsert(m, k, v) == [x \in DOMAIN m \cup {k} |-> IF x = k THEN v ELSE m[x]]
\* HashMap::remove
MapRemove(m, k) == [x \in DOMAIN m \ {k} |-> m[x]]
EmptyMap == [x \in {} |-> x]

\* ConfigService::save_connection: the file afterwards (load, insert, save)
FileAfterSaveConnection(file, c, fs) ==
  IF fs = "ok" THEN MapInsert(file, c.id, ToS3Connection(c)) ELSE file
\* ConfigService::delete_connection: the file afterwards (load, remove, save)
FileAfterDeleteConnection(file, id, fs) ==
  IF fs = "ok" THEN MapRemove(file, id) ELSE file
\* the AppResult of either
ConfigResult(fs) ==
  IF fs = "ok" THEN Ok(<<>>)
  ELSE IF fs = "load_fails" THEN Err("SerializationError", "load")
  ELSE Err("IoError", "save")

\* the S3ConnectionWithSecret built by create_connection
NewConnection(id, name, secret_key, now) ==
  [id |-> id, name |-> name, provider |-> "custom", endpoint |-> "https://s3.local",
   region |-> "us-east-1", access_key |-> "AKIA", secret_key |-> secret_key,
   use_ssl |-> TRUE, use_path_style |-> TRUE, created_at |-> now, updated_at |-> now]

\* the S3ConnectionWithSecret built by import_connections for one entry
ImportedConnection(id, exported, now) ==
  [id |-> id, name |-> exported.name, provider |-> exported.provider,
   endpoint |-> exported.endpoint, region |-> exported.region,
   access_key |-> exported.access_key, secret_key |-> "",
   use_ssl |-> exported.use_ssl, use_path_style |-> exported.use_path_style,
   created_at |-> now, updated_at |-> now]

\* ExportedConnection built by export_connections from a registry record
ToExported(c) ==
  [name |-> c.name, provider |-> c.provider, endpoint |-> c.endpoint, region |-> c.region,
   access_key |-> c.access_key, use_ssl |-> c.use_ssl, use_path_style |-> c.use_path_style]

\* connections.values(): the ids of the map in any order
Orders(S) ==
  {q \in [1..Cardinality(S) -> S] : \A i, j \in 1..Cardinality(S) : i # j => q[i] # q[j]}

\* ConnectionExport { version: 1, connections: exported } as the JSON returned
ExportBlob(reg, order) ==
  [valid |-> TRUE, version |-> ExportVersion,
   connections |-> [i \in 1..Len(order) |-> ToExported(reg[order[i]])]]

\* The optional arguments of update_connection that are Some, as a record.
Updates ==
  { EmptyMap,
    [secret_key |-> "r0tated"],
    [name |-> "test", use_path_style |-> FALSE] }

\* the fields update_connection assigns before it stores the secret, that one
\* included, and those it assigns after
EarlyFields == {"name", "provider", "endpoint", "region", "access_key", "secret_key"}
LateFields == {"use_ssl", "use_path_style"}

\* if let Some(v) = field { connection.field = v } for the fields in fs
ApplyFields(c, upd, fs) ==
  [f \in DOMAIN c |-> IF f \in DOMAIN upd \cap fs THEN upd[f] ELSE c[f]]

\* a version check that lets every version through
VersionSupportedAny(v) == TRUE
\* if import.version != 1 { return Err(..) }
VersionSupported(v) == v = ExportVersion

RECURSIVE ImportAll(_, _, _, _, _, _)
\* The loop of import_connections over the blob's entries: each gets a fresh
\* id, is inserted into the registry and saved to the file (a failed save is
\* only logged), and is pushed onto the returned list.
ImportAll(reg, file, uuid, items, fss, now) ==
  IF items = <<>>
    THEN [reg |-> reg, file |-> file, uuid |-> uuid, imported |-> <<>>]
    ELSE LET c == ImportedConnection(uuid, Head(items), now)
             rest == ImportAll(MapInsert(reg, uuid, c),
                               FileAfterSaveConnection(file, c, Head(fss)),
                               uuid + 1, Tail(items), Tail(fss), now)
         IN [rest EXCEPT !.imported = <<ToS3Connection(c)>> \o rest.imported]

ConnInit ==
  /\ connections = EmptyMap
  /\ config_file = EmptyMap
  /\ keyring = EmptyMap
  /\ next_uuid = 1
  /\ conn_pc = "idle"
  /\ conn_call = NoCall
  /\ conn_ret = Pending
  /\ pre_connections = EmptyMap
  /\ pre_config_file = EmptyMap
  /\ updates = 0

\* commands::create_connection
CreateConnection(name, secret_key, now, keyring_ok, fs) ==
  /\ conn_pc = "idle"
  /\ UNCHANGED nonConnVars
  /\ UNCHANGED updates
  /\ next_uuid <= MaxIds
  /\ next_uuid' = next_uuid + 1
  /\ conn_call' = [op |-> "create_connection", id |-> next_uuid]
  /\ pre_connections' = connections
  /\ pre_config_file' = config_file
  /\ conn_pc' = "done"
  /\ IF ~keyring_ok
       THEN /\ conn_ret' = Err("KeyringError", "store")
            /\ UNCHANGED <<connections, config_file, keyring>>
       ELSE LET c == NewConnection(next_uuid, name, secret_key, now)
            IN /\ keyring' = MapInsert(keyring, next_uuid, secret_key)
               /\ connections' = MapInsert(connections, next_uuid, c)
               /\ config_file' = FileAfterSaveConnection(config_file, c, fs)
               /\ conn_ret' = IF fs = "ok" THEN Ok(ToS3Connection(c)) ELSE ConfigResult(fs)

\* commands::delete_connection
DeleteConnection(id, keyring_ok, fs) ==
  /\ conn_pc = "idle"
  /\ UNCHANGED nonConnVars
  /\ conn_call' = [op |-> "delete_connection", id |-> id]
  /\ pre_connections' = connections
  /\ pre_config_file' = config_file
  /\ conn_pc' = "done"
  /\ connections' = MapRemove(connections, id)
  /\ keyring' = IF keyring_ok THEN MapRemove(keyring, id) ELSE keyring
  /\ config_file' = FileAfterDeleteConnection(config_file, id, fs)
  /\ conn_ret' = ConfigResult(fs)
  /\ UNCHANGED <<next_uuid, updates>>

\* commands::update_connection
UpdateConnection(id, upd, now, keyring_ok, fs) ==
  /\ conn_pc = "idle"
  /\ UNCHANGED nonConnVars
  /\ updates < MaxUpdates
  /\ updates' = updates + 1
  /\ conn_call' = [op |-> "update_connection", id |-> id, upd |-> upd]
  /\ pre_connections' = connections
  /\ pre_config_file' = config_file
  /\ conn_pc' = "done"
  /\ UNCHANGED next_uuid
  /\ IF id \notin DOMAIN connections
       THEN /\ conn_ret' = [Err("ConnectionNotFound", "") EXCEPT !.val = <<id>>]
            /\ UNCHANGED <<connections, config_file, keyring>>
       ELSE LET early == ApplyFields(connections[id], upd, EarlyFields)
                updated == [ApplyFields(early, upd, LateFields) EXCEPT !.updated_at = now]
            IN IF "secret_key" \in DOMAIN upd /\ ~keyring_ok
                 THEN /\ connections' = [connections EXCEPT ![id] = early]
                      /\ conn_ret' = Err("KeyringError", "store")
                      /\ UNCHANGED <<config_file, keyring>>
                 ELSE /\ connections' = [connections EXCEPT ![id] = updated]
                      /\ keyring' = IF "secret_key" \in DOMAIN upd
                                      THEN MapInsert(keyring, id, upd.secret_key)
                                      ELSE keyring
                      /\ config_file' = FileAfterSaveConnection(config_file, updated, fs)
                      /\ conn_ret' = IF fs = "ok" THEN Ok(ToS3Connection(updated))
                                      ELSE ConfigResult(fs)

\* commands::export_connections; `order` is the order connections.values()
\* yields the records in
ExportConnections(order) ==
  /\ conn_pc = "idle"
  /\ UNCHANGED nonConnVars
  /\ conn_call' = [op |-> "export_connections"]
  /\ pre_connections' = connections
  /\ pre_config_file' = config_file
  /\ conn_pc' = "done"
  /\ conn_ret' = Ok(ExportBlob(connections, order))
  /\ UNCHANGED <<connections, config_file, keyring, next_uuid, updates>>

\* commands::import_connections
ImportConnections(blob, fss, now) ==
  /\ conn_pc = "idle"
  /\ UNCHANGED nonConnVars
  /\ conn_call' = [op |-> "import_connections", blob |-> blob]
  /\ pre_connections' = connections
  /\ pre_config_file' = config_file
  /\ conn_pc' = "done"
  /\ UNCHANGED <<keyring, updates>>
  /\ IF ~blob.valid
       THEN /\ conn_ret' = Err("S3Error", "Invalid JSON format")
            /\ UNCHANGED <<connections, config_file, next_uuid>>
       ELSE IF ~VersionSupported(blob.version)
       THEN /\ conn_ret' = Err("S3Error", "Unsupported export version")
            /\ UNCHANGED <<connections, config_file, next_uuid>>
       ELSE LET r == ImportAll(connections, config_file, next_uuid, blob.connections, fss, now)
            IN /\ next_uuid + Len(blob.connections) <= MaxIds + 1
               /\ connections' = r.reg
               /\ config_file' = r.file
               /\ next_uuid' = r.uuid
               /\ conn_ret' = Ok(r.imported)

\* the command has returned
ConnReturn ==
  /\ conn_pc = "done"
  /\ UNCHANGED nonConnVars
  /\ conn_pc' = "idle"
  /\ conn_call' = NoCall
  /\ conn_ret' = Pending
  /\ pre_connections' = connections
  /\ pre_config_file' = config_file
  /\ UNCHANGED <<connections, config_file, keyring, next_uuid, updates>>

\* CreateConnection on any input, when no command of the component is in flight
CreateConnectionCommand ==
  /\ conn_pc = "idle"
  /\ \E n \in Names, sk \in Secrets, now \in {1700000000}, k \in BOOLEAN, fs \in FsOutcomes :
       CreateConnection(n, sk, now, k, fs)

\* DeleteConnection on any input, when no command of the component is in flight
DeleteConnectionCommand ==
  /\ conn_pc = "idle"
  /\ \E id \in 1..MaxIds, k \in BOOLEAN, fs \in FsOutcomes : DeleteConnection(id, k, fs)

\* UpdateConnection on any input, when no command of the component is in flight
UpdateConnectionCommand ==
  /\ conn_pc = "idle"
  /\ \E id \in 1..MaxIds, upd \in Updates, now \in {1700000060}, k \in BOOLEAN,
        fs \in FsOutcomes : UpdateConnection(id, upd, now, k, fs)

\* ExportConnections, when no command of the component is in flight
ExportConnectionsCommand ==
  /\ conn_pc = "idle"
  /\ \E order \in Orders(DOMAIN connections) : ExportConnections(order)

\* ImportConnections on any input, when no command of the component is in flight
ImportConnectionsCommand ==
  /\ conn_pc = "idle"
  /\ \E blob \in Blobs, now \in {1700000000} :
       \E fss \in [1..Len(blob.connections) -> FsOutcomes] : ImportConnections(blob, fss, now)

ConnNext ==
  \/ ConnReturn
  \/ CreateConnectionCommand
  \/ UpdateConnectionCommand
  \/ DeleteConnectionCommand
  \/ ExportConnectionsCommand
  \/ ImportConnectionsCommand

\* ------------------------------------------------------------ create_operator
\* enum S3Provider, by its serde names
Providers == {"aws", "minio", "cloudflare_r2", "digitalocean", "backblaze", "wasabi", "custom"}

\* the fields of a connection create_operator reads
OperatorConnections ==
  [provider : Providers, endpoint : {"https://s3.local"}, region : {"us-east-1", "auto"},
   access_key : {"AKIA"}, secret_key : {"s3cr3t"}, use_path_style : BOOLEAN]

\* S3::default().bucket(..).endpoint(..).region(..).access_key_id(..)
\* .secret_access_key(..): no batch-delete cap set, path-style addressing
DefaultBuilder(connection, bucket) ==
  [bucket |-> bucket, endpoint |-> connection.endpoint, region |-> connection.region,
   access_key_id |-> connection.access_key, secret_access_key |-> connection.secret_key,
   delete_max_size |-> None, enable_virtual_host_style |-> FALSE]

\* builder.delete_max_size(n)
WithDeleteMaxSize(b, n) == [b EXCEPT !.delete_max_size = Some(n)]
\* builder.enable_virtual_host_style()
WithVirtualHostStyle(b) == [b EXCEPT !.enable_virtual_host_style = TRUE]

\* if !connection.use_path_style { builder = builder.enable_virtual_host_style(); }
Addressed(b, connection) ==
  IF ~connection.use_path_style THEN WithVirtualHostStyle(b) ELSE b

\* the builder after `match connection.provider`
ConfiguredBuilder(connection, bucket) ==
  IF connection.provider = "cloudflare_r2"
    THEN WithDeleteMaxSize(DefaultBuilder(connection, bucket), R2DeleteMaxSize)
  ELSE IF connection.provider = "minio"
    THEN Addressed(DefaultBuilder(connection, bucket), connection)
  ELSE Addressed(DefaultBuilder(connection, bucket), connection)

NoBuilder == [bucket |-> ""]

OpInit ==
  /\ op_pc = "idle"
  /\ op_call = NoCall
  /\ builder = NoBuilder
  /\ op_ret = Pending

\* S3Service::create_operator; build_ok is whether Operator::new accepts the
\* builder
CreateOperator(connection, bucket, build_ok) ==
  /\ op_pc = "idle"
  /\ UNCHANGED nonOpVars
  /\ op_call' = [op |-> "create_operator", connection |-> connection, bucket |-> bucket]
  /\ builder' = ConfiguredBuilder(connection, bucket)
  /\ op_ret' = IF build_ok THEN Ok(ConfiguredBuilder(connection, bucket))
                ELSE Err("OpendalError", "config")
  /\ op_pc' = "done"

\* the call has returned
OperatorReturn ==
  /\ op_pc = "done"
  /\ UNCHANGED nonOpVars
  /\ op_pc' = "idle"
  /\ op_call' = NoCall
  /\ builder' = NoBuilder
  /\ op_ret' = Pending

\* CreateOperator on any input, when no call is in flight
CreateOperatorCommand ==
  /\ op_pc = "idle"
  /\ \E c \in OperatorConnections, n \in BucketNames, b \in BOOLEAN : CreateOperator(c, n, b)

OpNext ==
  \/ OperatorReturn
  \/ CreateOperatorCommand

\* -------------------------------------------------- bucket and object commands
\* the callers of the invoke handler that may have a command in flight
Callers == {"c1", "c2"}

\* the bucket commands and the object commands registered in invoke_handler
BucketCommands ==
  {"list_buckets", "create_bucket", "delete_bucket", "get_bucket_location", "head_bucket",
   "get_bucket_versioning", "get_bucket_stats"}
ObjectCommands ==
  {"list_objects", "get_object_details", "get_object_metadata", "upload_file",
   "download_file", "delete_objects", "create_folder", "get_presigned_url",
   "get_object_text", "copy_object", "rename_object"}
Commands == BucketCommands \cup ObjectCommands

\* the commands that borrow the connection from the guard and never call
\* drop(connections): the guard lives until the command returns
KeepsGuard(kind) == kind \in {"list_buckets", "list_objects", "get_object_details"}

\* the commands that call S3Service::create_operator before their backend call
UsesOperator(kind) ==
  kind \in {"list_objects", "get_object_details", "upload_file", "download_file",
            "delete_objects", "create_folder", "get_object_text"}

\* the error kind of a failed backend call: opendal for the operator commands,
\* the AWS SDK's, mapped to S3Error, for the others
BackendError(kind) ==
  IF UsesOperator(kind) THEN Err("OpendalError", "backend") ELSE Err("S3Error", "backend")

\* a lookup that falls back to some connection of the registry
LookupOrAny(reg, id) ==
  IF id \in DOMAIN reg THEN Some(reg[id])
  ELSE IF DOMAIN reg # {} THEN Some(reg[CHOOSE x \in DOMAIN reg : TRUE])
  ELSE None
\* connections.get(&connection_id)
Lookup(reg, id) == IF id \in DOMAIN reg THEN Some(reg[id]) ELSE None

\* a lookup that takes the record out of the map
RegistryAfterRemove(reg, id) == MapRemove(reg, id)
\* the registry after connections.get(&connection_id): get takes &self
RegistryAfterGet(reg, id) == reg

\* AppError::ConnectionNotFound(connection_id)
ConnectionNotFound(id) == [Err("ConnectionNotFound", "") EXCEPT !.val = <<id>>]

\* UploadProgress
UploadProgress(bytes_uploaded, total_bytes, percentage, delivered) ==
  [bytes_uploaded |-> bytes_uploaded, total_bytes |-> total_bytes,
   percentage |-> percentage, delivered |-> delivered]

\* an emit whose failure is returned by the command
AfterEmitChecked(result, emit_ok) == IF emit_ok THEN result ELSE Err("S3Error", "emit")
\* let _ = app.emit(..): the command's result after an emit
AfterEmit(result, emit_ok) == result

\* data.len() of the files upload_file reads
FileSizes == {0, 2}

\* the connections.json an earlier run left: the records of ids 1..n
SavedConnection(id) == ToS3Connection(NewConnection(id, "prod", "", 1700000000))
SavedFiles == {[id \in 1..n |-> SavedConnection(id)] : n \in 0..MaxIds}

\* S3ConnectionWithSecret built by setup for a loaded record: the secret of
\* the keyring, or the empty string when the keyring gives none
LoadedConnection(conn, secret) ==
  [f \in DOMAIN conn \cup {"secret_key"} |-> IF f = "secret_key" THEN secret ELSE conn[f]]

CmdInit ==
  /\ booted = FALSE
  /\ connections_lock = "free"
  /\ cmd_pc = [c \in Callers |-> "idle"]
  /\ cmd_call = [c \in Callers |-> NoCall]
  /\ cmd_ret = [c \in Callers |-> Pending]
  /\ cmd_issued = [c \in Callers |-> FALSE]
  /\ cmd_wrote = [c \in Callers |-> "none"]
  /\ events = [c \in Callers |-> <<>>]

\* the setup hook of run(): load connections.json, fetch each secret, and
\* replace the registry; a file that does not load leaves the registry empty
Setup(file, load_ok, keyring_ok) ==
  /\ ~booted
  /\ booted' = TRUE
  /\ UNCHANGED nonCmdVars
  /\ config_file' = file
  /\ keyring' = IF keyring_ok THEN [id \in DOMAIN file |-> "s3cr3t"] ELSE EmptyMap
  /\ connections' =
       IF load_ok
         THEN [id \in DOMAIN file |->
                 LoadedConnection(file[id], IF keyring_ok THEN "s3cr3t" ELSE "")]
         ELSE connections
  /\ next_uuid' = Cardinality(DOMAIN file) + 1
  /\ pre_connections' = connections'
  /\ pre_config_file' = file
  /\ UNCHANGED <<conn_pc, conn_call, conn_ret, updates>>
  /\ UNCHANGED <<connections_lock, cmd_pc, cmd_call, cmd_ret, cmd_issued, cmd_wrote, events>>

\* a caller invokes a command: it runs up to state.connections.lock().await
Invoke(c, kind, id) ==
  /\ booted
  /\ cmd_pc[c] = "idle"
  /\ UNCHANGED <<nonCmdVars, connVars>>
  /\ cmd_pc' = [cmd_pc EXCEPT ![c] = "lock"]
  /\ cmd_call' = [cmd_call EXCEPT ![c] = [op |-> kind, connection_id |-> id]]
  /\ UNCHANGED <<booted, connections_lock, cmd_ret, cmd_issued, cmd_wrote, events>>

\* The command gets the lock and looks the connection up.  An absent id
\* returns ConnectionNotFound.  Otherwise the command clones the connection
\* and drops the guard, or keeps the guard; builds its operator if it uses
\* one; and runs up to its next await: the file read of upload_file, or the
\* first backend call.
Resolve(c, operator_ok) ==
  /\ cmd_pc[c] = "lock"
  /\ connections_lock = "free"
  /\ UNCHANGED <<nonCmdVars, connRest>>
  /\ connections' = RegistryAfterGet(connections, cmd_call[c].connection_id)
  /\ UNCHANGED <<booted, cmd_call, cmd_wrote, events>>
  /\ IF Lookup(connections, cmd_call[c].connection_id) = None
       THEN /\ cmd_ret' = [cmd_ret EXCEPT ![c] = ConnectionNotFound(cmd_call[c].connection_id)]
            /\ cmd_pc' = [cmd_pc EXCEPT ![c] = "done"]
            /\ UNCHANGED <<connections_lock, cmd_issued>>
       ELSE IF UsesOperator(cmd_call[c].op) /\ ~operator_ok
       THEN /\ cmd_ret' = [cmd_ret EXCEPT ![c] = Err("OpendalError", "config")]
            /\ cmd_pc' = [cmd_pc EXCEPT ![c] = "done"]
            /\ UNCHANGED <<connections_lock, cmd_issued>>
       ELSE IF cmd_call[c].op = "upload_file"
       THEN /\ cmd_pc' = [cmd_pc EXCEPT ![c] = "read_file"]
            /\ UNCHANGED <<connections_lock, cmd_ret, cmd_issued>>
       ELSE /\ cmd_pc' = [cmd_pc EXCEPT ![c] = "backend"]
            /\ cmd_issued' = [cmd_issued EXCEPT ![c] = TRUE]
            /\ connections_lock' = IF KeepsGuard(cmd_call[c].op) THEN c ELSE "free"
            /\ UNCHANGED cmd_ret

\* upload_file: fs::read(&file_path).await, then the start event and the
\* call of S3Service::upload_object
ReadFile(c, read_ok, total_bytes, emit_ok) ==
  /\ cmd_pc[c] = "read_file"
  /\ UNCHANGED <<nonCmdVars, connVars>>
  /\ UNCHANGED <<booted, connections_lock, cmd_call, cmd_wrote>>
  /\ IF ~read_ok
       THEN /\ cmd_ret' = [cmd_ret EXCEPT ![c] = Err("IoError", "read")]
            /\ cmd_pc' = [cmd_pc EXCEPT ![c] = "done"]
            /\ UNCHANGED <<cmd_issued, events>>
       ELSE /\ events' = [events EXCEPT ![c] =
                            Append(@, UploadProgress(0, total_bytes, 0, emit_ok))]
            /\ cmd_ret' = [cmd_ret EXCEPT ![c] = AfterEmit(Pending, emit_ok)]
            /\ cmd_issued' = [cmd_issued EXCEPT ![c] = TRUE]
            /\ cmd_pc' = [cmd_pc EXCEPT ![c] = "backend"]

\* the backend work of the command ends; upload_file emits its completion
\* event on success, download_file goes on to write the file, a command that
\* kept the guard releases it as it returns
Backend(c, backend_ok, emit_ok) ==
  /\ cmd_pc[c] = "backend"
  /\ UNCHANGED <<nonCmdVars, connVars>>
  /\ UNCHANGED <<booted, cmd_call, cmd_issued>>
  /\ connections_lock' = IF connections_lock = c THEN "free" ELSE connections_lock
  /\ IF ~backend_ok
       THEN /\ cmd_ret' = [cmd_ret EXCEPT ![c] = BackendError(cmd_call[c].op)]
            /\ cmd_pc' = [cmd_pc EXCEPT ![c] = "done"]
            /\ cmd_wrote' = [cmd_wrote EXCEPT ![c] =
                               IF cmd_call[c].op = "upload_file" THEN "err" ELSE @]
            /\ UNCHANGED events
       ELSE IF cmd_call[c].op = "upload_file"
       THEN /\ events' = [events EXCEPT ![c] =
                            Append(@, UploadProgress(events[c][1].total_bytes,
                                                     events[c][1].total_bytes, 100, emit_ok))]
            /\ cmd_wrote' = [cmd_wrote EXCEPT ![c] = "ok"]
            /\ cmd_ret' = [cmd_ret EXCEPT ![c] = AfterEmit(Ok(<<>>), emit_ok)]
            /\ cmd_pc' = [cmd_pc EXCEPT ![c] = "done"]
       ELSE IF cmd_call[c].op = "download_file"
       THEN /\ cmd_pc' = [cmd_pc EXCEPT ![c] = "write_file"]
            /\ UNCHANGED <<cmd_ret, cmd_wrote, events>>
       ELSE /\ cmd_ret' = [cmd_ret EXCEPT ![c] = Ok(<<>>)]
            /\ cmd_pc' = [cmd_pc EXCEPT ![c] = "done"]
            /\ UNCHANGED <<cmd_wrote, events>>

\* download_file: fs::write(&destination, &data).await
WriteFile(c, write_ok) ==
  /\ cmd_pc[c] = "write_file"
  /\ UNCHANGED <<nonCmdVars, connVars>>
  /\ UNCHANGED <<booted, connections_lock, cmd_call, cmd_issued, cmd_wrote, events>>
  /\ cmd_ret' = [cmd_ret EXCEPT ![c] = IF write_ok THEN Ok(<<>>) ELSE Err("IoError", "write")]
  /\ cmd_pc' = [cmd_pc EXCEPT ![c] = "done"]

\* the command has returned to its caller
CmdReturn(c) ==
  /\ cmd_pc[c] = "done"
  /\ UNCHANGED <<nonCmdVars, connVars>>
  /\ UNCHANGED <<booted, connections_lock>>
  /\ cmd_pc' = [cmd_pc EXCEPT ![c] = "idle"]
  /\ cmd_call' = [cmd_call EXCEPT ![c] = NoCall]
  /\ cmd_ret' = [cmd_ret EXCEPT ![c] = Pending]
  /\ cmd_issued' = [cmd_issued EXCEPT ![c] = FALSE]
  /\ cmd_wrote' = [cmd_wrote EXCEPT ![c] = "none"]
  /\ events' = [events EXCEPT ![c] = <<>>]

\* Setup on any file an earlier run left
SetupCommand ==
  /\ ~booted
  /\ \E file \in SavedFiles, l \in BOOLEAN, k \in BOOLEAN : Setup(file, l, k)

\* any caller invokes any command with any id
InvokeCommand ==
  \E c \in Callers :
    /\ cmd_pc[c] = "idle"
    /\ \E kind \in Commands, id \in 1..MaxIds : Invoke(c, kind, id)

CmdNext ==
  \/ SetupCommand
  \/ InvokeCommand
  \/ \E c \in Callers, o \in BOOLEAN : Resolve(c, o)
  \/ \E c \in Callers, r \in BOOLEAN, n \in FileSizes, e \in BOOLEAN : ReadFile(c, r, n, e)
  \/ \E c \in Callers, b \in BOOLEAN, e \in BOOLEAN : Backend(c, b, e)
  \/ \E c \in Callers, w \in BOOLEAN : WriteFile(c, w)
  \/ \E c \in Callers : CmdReturn(c)


\* ------------------------------------- connection commands of two callers
\* What the steps of these commands leave alone.
nonSaveVars ==
  <<listVars, adminVars, objVars, opVars,
    conn_pc, conn_call, conn_ret, pre_connections, pre_config_file, updates,
    booted, cmd_pc, cmd_call, cmd_ret, cmd_issued, cmd_wrote, events>>

ConnectionCommands ==
  {"create_connection", "update_connection", "delete_connection", "import_connections"}

\* a command that drops the guard before it calls ConfigService
SavesUnderGuardNever(kind) == FALSE
\* the commands whose MutexGuard `connections` is alive at the call of
\* ConfigService::save_connection / delete_connection: none of them calls drop
SavesUnderGuard(kind) == kind \in ConnectionCommands

\* the arguments update_connection is called with here
RenameUpdate == [name |-> "test", use_path_style |-> FALSE]

NoSave == [op |-> "none", id |-> 0, more |-> 0, conn |-> None]

SaveInit ==
  /\ save_pc = [c \in Callers |-> "idle"]
  /\ save_call = [c \in Callers |-> NoSave]
  /\ loaded = [c \in Callers |-> EmptyMap]

\* A caller invokes a connection command, which runs up to
\* state.connections.lock().await: create_connection draws its id and stores
\* the secret; import_connections parses a version-1 blob of n entries (the
\* ids its loop will draw are n fresh ones).
SaveInvoke(c, kind, id, n, exported) ==
  /\ save_pc[c] = "idle"
  /\ UNCHANGED nonSaveVars
  /\ UNCHANGED <<connections, config_file, connections_lock, loaded>>
  /\ save_pc' = [save_pc EXCEPT ![c] = "lock"]
  /\ IF kind = "create_connection"
       THEN /\ next_uuid <= MaxIds
            /\ next_uuid' = next_uuid + 1
            /\ keyring' = MapInsert(keyring, next_uuid, "s3cr3t")
            /\ save_call' = [save_call EXCEPT ![c] =
                 [op |-> kind, id |-> next_uuid, more |-> 0,
                  conn |-> Some(NewConnection(next_uuid, "prod", "s3cr3t", 1700000000))]]
       ELSE IF kind = "import_connections"
       THEN /\ next_uuid + n - 1 <= MaxIds
            /\ next_uuid' = next_uuid + n
            /\ UNCHANGED keyring
            /\ save_call' = [save_call EXCEPT ![c] =
                 [op |-> kind, id |-> next_uuid, more |-> n - 1,
                  conn |-> Some(ImportedConnection(next_uuid, exported, 1700000000))]]
       ELSE /\ UNCHANGED <<next_uuid, keyring>>
            /\ save_call' = [save_call EXCEPT ![c] =
                 [op |-> kind, id |-> id, more |-> 0, conn |-> None]]

\* state.connections.lock().await returns the guard and the command changes
\* the registry: insert, get_mut and assign, or remove.  update_connection of
\* an unknown id returns ConnectionNotFound.
SaveLock(c) ==
  /\ save_pc[c] = "lock"
  /\ connections_lock = "free"
  /\ UNCHANGED nonSaveVars
  /\ UNCHANGED <<config_file, next_uuid, loaded>>
  /\ LET call == save_call[c] IN
     IF call.op = "update_connection" /\ call.id \notin DOMAIN connections
       THEN /\ save_pc' = [save_pc EXCEPT ![c] = "done"]
            /\ connections_lock' = c
            /\ UNCHANGED <<connections, keyring, save_call>>
       ELSE /\ save_pc' = [save_pc EXCEPT ![c] = "load"]
            /\ connections_lock' = IF SavesUnderGuard(call.op) THEN c ELSE "free"
            /\ IF call.op = "update_connection"
                 THEN LET updated ==
                            [ApplyFields(connections[call.id], RenameUpdate,
                                         EarlyFields \cup LateFields)
                               EXCEPT !.updated_at = 1700000060]
                      IN /\ connections' = [connections EXCEPT ![call.id] = updated]
                         /\ save_call' = [save_call EXCEPT ![c].conn = Some(updated)]
                         /\ UNCHANGED keyring
                 ELSE IF call.op = "delete_connection"
                 THEN /\ connections' = MapRemove(connections, call.id)
                      /\ keyring' = MapRemove(keyring, call.id)
                      /\ UNCHANGED save_call
                 ELSE /\ connections' = MapInsert(connections, call.id, call.conn[1])
                      /\ UNCHANGED <<keyring, save_call>>

\* ConfigService::load_connections inside save_connection / delete_connection
SaveLoad(c) ==
  /\ save_pc[c] = "load"
  /\ UNCHANGED nonSaveVars
  /\ UNCHANGED <<connections, config_file, keyring, next_uuid, connections_lock, save_call>>
  /\ loaded' = [loaded EXCEPT ![c] = config_file]
  /\ save_pc' = [save_pc EXCEPT ![c] = "write"]

\* connections.insert / remove on the loaded map and
\* ConfigService::save_connections; import_connections then turns to its next
\* entry and inserts it into the registry
SaveWrite(c) ==
  /\ save_pc[c] = "write"
  /\ UNCHANGED nonSaveVars
  /\ UNCHANGED <<keyring, next_uuid, connections_lock>>
  /\ LET call == save_call[c] IN
     /\ config_file' = IF call.op = "delete_connection"
                         THEN MapRemove(loaded[c], call.id)
                         ELSE MapInsert(loaded[c], call.id, ToS3Connection(call.conn[1]))
     /\ loaded' = [loaded EXCEPT ![c] = EmptyMap]
     /\ IF call.op = "import_connections" /\ call.more > 0
          THEN LET next == ImportedConnection(call.id + 1, ToExported(call.conn[1]), 1700000000)
               IN /\ connections' = MapInsert(connections, call.id + 1, next)
                  /\ save_call' = [save_call EXCEPT ![c] =
                       [call EXCEPT !.id = @ + 1, !.more = @ - 1, !.conn = Some(next)]]
                  /\ save_pc' = [save_pc EXCEPT ![c] = "load"]
          ELSE /\ save_pc' = [save_pc EXCEPT ![c] = "done"]
               /\ UNCHANGED <<connections, save_call>>

\* the command returns: its locals are dropped, the guard among them
SaveReturn(c) ==
  /\ save_pc[c] = "done"
  /\ UNCHANGED nonSaveVars
  /\ UNCHANGED <<connections, config_file, keyring, next_uuid>>
  /\ connections_lock' = IF connections_lock = c THEN "free" ELSE connections_lock
  /\ save_pc' = [save_pc EXCEPT ![c] = "idle"]
  /\ save_call' = [save_call EXCEPT ![c] = NoSave]
  /\ loaded' = [loaded EXCEPT ![c] = EmptyMap]

\* SaveInvoke on any input by a caller with no command in flight
SaveInvokeCommand ==
  \E c \in Callers :
    /\ save_pc[c] = "idle"
    /\ \E kind \in ConnectionCommands, id \in 1..MaxIds, n \in 1..MaxImport,
          e \in ExportedPool : SaveInvoke(c, kind, id, n, e)

SaveNext ==
  \/ SaveInvokeCommand
  \/ \E c \in Callers : SaveLock(c)
  \/ \E c \in Callers : SaveLoad(c)
  \/ \E c \in Callers : SaveWrite(c)
  \/ \E c \in Callers : SaveReturn(c)

Init == ListInit /\ AdminInit /\ ObjInit /\ ConnInit /\ OpInit /\ CmdInit /\ SaveInit

SpecList == Init /\ [][ListNext]_vars

SpecAdmin == Init /\ [][AdminNext]_vars

SpecObj == Init /\ [][ObjNext]_vars

SpecDelete == Init /\ [][DeleteNext]_vars

SpecConn == Init /\ [][ConnNext]_vars

\* the command returns Ok(..)
ReturnsOk == conn_ret'.tag = "Ok"

\* the commands that change the registry, in runs where each returns success
ConnOkNext ==
  \/ ConnReturn
  \/ CreateConnectionCommand /\ ReturnsOk
  \/ UpdateConnectionCommand /\ ReturnsOk
  \/ DeleteConnectionCommand /\ ReturnsOk
  \/ ImportConnectionsCommand /\ ReturnsOk

SpecConnOk == Init /\ [][ConnOkNext]_vars

SpecOperator == Init /\ [][OpNext]_vars

SpecCmd == Init /\ [][CmdNext]_vars

SpecSave == Init /\ [][SaveNext]_vars

\* ===================================================================== claims

\* ------------------------------------------------------------ list_objects
ListReturned == list_pc = "done" /\ list_ret.tag = "Ok"
PageSize(r) == Len(r.objects) + Len(r.prefixes)

\* C2: one call of list_objects returns at most `limit` entries, objects and
\* prefixes counted together (the effective limit, and so also the limit the
\* caller asked for), and is_truncated is true exactly when a
\* continuation_token is present.
C2_PageWithinLimit ==
  /\ list_pc = "loop" => count = Len(objects) + Len(prefixes) /\ count <= limit
  /\ ListReturned =>
       /\ PageSize(list_ret.val) <= limit
       /\ IsSome(max_keys) => PageSize(list_ret.val) <= max_keys[1]
       /\ list_ret.val.is_truncated <=> IsSome(list_ret.val.continuation_token)

\* C2 witness: a truncated page that is full and holds objects and prefixes.
C2_Witness ==
  /\ ListReturned
  /\ list_ret.val.is_truncated
  /\ list_ret.val.objects # <<>>
  /\ list_ret.val.prefixes # <<>>
  /\ PageSize(list_ret.val) = limit

\* C3: list_objects returns is_truncated = true with a continuation marker
\* exactly when it stopped with the count at the limit and an entry of the
\* stream left; when the stream is exhausted (also a stream of exactly
\* `limit` entries) it returns is_truncated = false and no marker.
C3_TruncatedIffStoppedAtLimit ==
  ListReturned =>
    /\ list_ret.val.is_truncated <=> (count >= limit /\ lister # <<>>)
    /\ IsSome(list_ret.val.continuation_token) <=> (count >= limit /\ lister # <<>>)
    /\ list_ret.val.is_truncated => list_ret.val.continuation_token = Some(OffsetToken(count))
    /\ lister = <<>> =>
         ~list_ret.val.is_truncated /\ list_ret.val.continuation_token = None

\* C3 witness: a stream of exactly `limit` entries, read to its end.
C3_Witness ==
  /\ ListReturned
  /\ limit > 0
  /\ count = limit
  /\ lister = <<>>
  /\ ~list_ret.val.is_truncated

\* the limit the specification describes: 500 by default, else the caller's
\* value clamped into [1, 1000]
ClampedLimit(mk) == IF mk = None THEN 500 ELSE Max(1, Min(mk[1], 1000))

\* C4: the effective page limit is 500 when the caller gives none, and else
\* the caller's value clamped into [1, 1000] (0 is treated as 1).
C4_LimitClampedFromOne ==
  ListReturned => limit = ClampedLimit(max_keys)

\* ------------------------------------------------------- bucket operations
StatsReturned ==
  admin_pc = "done" /\ admin_call.op = "get_bucket_stats" /\ admin_ret.tag = "Ok"

\* C5: get_bucket_stats returns 0 and 0 for an empty bucket and exactly N and
\* S for a bucket of N objects of total size S, however the backend splits the
\* listing into pages linked by continuation tokens.
C5_StatsExact ==
  (StatsReturned /\ linked) =>
    /\ admin_ret.val.object_count = Len(listing)
    /\ admin_ret.val.total_size = SumSizes(listing)
    /\ listing = <<>> => admin_ret.val.object_count = 0 /\ admin_ret.val.total_size = 0

\* C5 witness: a full bucket counted over three requests.
C5_Witness ==
  /\ StatsReturned
  /\ linked
  /\ Len(listing) = MaxObjs
  /\ requests >= 3
  /\ admin_ret.val.total_size > 0

\* get_bucket_stats has returned after the request for some page failed
StatsFailed ==
  admin_pc = "done" /\ admin_call.op = "get_bucket_stats" /\ admin_call.failed_page > 0

\* C20: when the request for page N of get_bucket_stats fails, the call
\* returns the error alone, no BucketStats with the counts of pages 1..N-1;
\* every call starts with both counts at 0 and its first request carries no
\* continuation token.
C20_StatsFailureDiscards ==
  /\ StatsFailed =>
       /\ admin_ret.tag = "Err"
       /\ admin_ret.kind = "S3Error"
       /\ admin_ret.val = <<>>
       /\ admin_call.failed_page = requests
  /\ (admin_pc = "stats_loop" /\ requests = 0) =>
       /\ object_count = 0
       /\ total_size = 0
       /\ continuation_token = None
       /\ TokenStart(continuation_token) = 0

\* C20 witness: the third request fails after objects were counted.
C20_Witness ==
  /\ StatsFailed
  /\ admin_call.failed_page = 3
  /\ object_count > 0
  /\ total_size > 0
  /\ admin_ret.tag = "Err"

HeadReturned == admin_pc = "done" /\ admin_call.op = "head_bucket"

\* C6: head_bucket returns Ok(true) when the backend call succeeds, Ok(false)
\* when the backend reports not-found, and an error for every other failure.
C6_HeadBucketByFailureClass ==
  HeadReturned =>
    /\ admin_call.outcome.ok => admin_ret.tag = "Ok" /\ admin_ret.val = TRUE
    /\ (~admin_call.outcome.ok /\ admin_call.outcome.class = "NotFound") =>
         admin_ret.tag = "Ok" /\ admin_ret.val = FALSE
    /\ (~admin_call.outcome.ok /\ admin_call.outcome.class = "Other") =>
         admin_ret.tag = "Err"

CreateReturned == admin_pc = "done" /\ admin_call.op = "create_bucket"
\* the explicit region if given, else the connection's
ChosenRegion == IF IsSome(admin_call.region) THEN admin_call.region[1] ELSE admin_call.conn_region

\* C10: create_bucket uses the explicit region if given, else the
\* connection's; for "us-east-1" the request carries no location constraint,
\* for every other region string a constraint equal to that string.
C10_LocationConstraint ==
  CreateReturned =>
    /\ admin_req.bucket = admin_call.bucket_name
    /\ ChosenRegion = "us-east-1" => admin_req.location_constraint = None
    /\ ChosenRegion # "us-east-1" => admin_req.location_constraint = Some(ChosenRegion)

\* C10 witness: an explicit region overrides a connection in us-east-1.
C10_Witness ==
  /\ CreateReturned
  /\ admin_call.conn_region = "us-east-1"
  /\ admin_call.region = Some("eu-west-1")
  /\ admin_req.location_constraint = Some("eu-west-1")
  /\ admin_ret.tag = "Ok"

\* -------------------------------------------------- bucket and object commands
\* C11: in every bucket and object command the registry lock is released
\* before the first backend call: a command waiting on the backend does not
\* hold the lock, and no command waiting for the lock is kept out meanwhile.
C11_LockReleasedBeforeBackend ==
  \A c \in Callers :
    cmd_pc[c] = "backend" =>
      /\ connections_lock # c
      /\ \A d \in Callers \ {c} : cmd_pc[d] = "lock" => connections_lock = "free"

\* the command of caller c has looked up an id the registry does not hold
ResolvedAbsent(c) ==
  /\ cmd_pc[c] = "lock"
  /\ cmd_pc'[c] # "lock"
  /\ cmd_call[c].connection_id \notin DOMAIN connections

\* C15: a bucket or object command whose connection id is not in the registry
\* returns ConnectionNotFound carrying that id, has issued no backend call
\* and emitted no event, and leaves the registry as it was.
C15_UnknownConnection ==
  [][\A c \in Callers :
       ResolvedAbsent(c) =>
         /\ cmd_pc'[c] = "done"
         /\ cmd_ret'[c].tag = "Err"
         /\ cmd_ret'[c].kind = "ConnectionNotFound"
         /\ cmd_ret'[c].val = <<cmd_call[c].connection_id>>
         /\ ~cmd_issued'[c]
         /\ events'[c] = <<>>
         /\ connections' = connections
         /\ connections_lock' = connections_lock]_vars

\* C15 witness: delete_objects on an id that is absent from a registry that
\* holds another connection.
C15_Witness ==
  \E c \in Callers :
    /\ cmd_pc[c] = "done"
    /\ cmd_call[c].op = "delete_objects"
    /\ cmd_call[c].connection_id \notin DOMAIN connections
    /\ cmd_ret[c].kind = "ConnectionNotFound"
    /\ DOMAIN connections # {}

\* C16: no step of a bucket or object command, succeeding or failing, changes
\* the connection registry or the persisted connection file.
C16_CommandsLeaveRegistry ==
  [][booted => (connections' = connections /\ config_file' = config_file)]_vars

\* C16 witness: a rename that succeeded and an upload that failed against a
\* registry and a file that hold connections.
C16_Witness ==
  /\ DOMAIN connections # {}
  /\ DOMAIN config_file # {}
  /\ \E c, d \in Callers :
       /\ cmd_pc[c] = "done" /\ cmd_call[c].op = "rename_object" /\ cmd_ret[c].tag = "Ok"
       /\ cmd_pc[d] = "done" /\ cmd_call[d].op = "upload_file" /\ cmd_ret[d].tag = "Err"
       /\ cmd_issued[d]

\* the event upload_file emits at the start and the one at completion
IsStartEvent(e) == e.bytes_uploaded = 0 /\ e.percentage = 0
IsCompletionEvent(e) == e.bytes_uploaded = e.total_bytes /\ e.percentage = 100

\* C18: upload_file emits the 0-bytes / 0% event before the backend write is
\* issued and the total-bytes / 100% event only after the write succeeded;
\* when the write fails, or is never issued, no completion event is emitted;
\* whether an emit was delivered never changes the command's result.
C18_UploadProgressEvents ==
  \A c \in Callers :
    cmd_call[c].op = "upload_file" =>
      /\ cmd_issued[c] => Len(events[c]) >= 1 /\ IsStartEvent(events[c][1])
      /\ cmd_pc[c] \in {"lock", "read_file"} => events[c] = <<>> /\ ~cmd_issued[c]
      /\ cmd_pc[c] = "backend" => Len(events[c]) = 1 /\ cmd_wrote[c] = "none"
      /\ cmd_pc[c] = "done" =>
           /\ cmd_wrote[c] = "ok" =>
                /\ Len(events[c]) = 2
                /\ IsCompletionEvent(events[c][2])
                /\ events[c][2].total_bytes = events[c][1].total_bytes
           /\ cmd_wrote[c] = "err" => Len(events[c]) = 1
           /\ cmd_wrote[c] = "none" => events[c] = <<>> /\ ~cmd_issued[c]
           /\ cmd_ret[c].tag = "Ok" <=> cmd_wrote[c] = "ok"
           /\ cmd_ret[c].tag = "Err" <=> cmd_wrote[c] # "ok"

\* C18 witness: an upload of two bytes succeeds although neither event was
\* delivered.
C18_Witness ==
  \E c \in Callers :
    /\ cmd_pc[c] = "done"
    /\ cmd_call[c].op = "upload_file"
    /\ cmd_wrote[c] = "ok"
    /\ cmd_ret[c].tag = "Ok"
    /\ Len(events[c]) = 2
    /\ ~events[c][1].delivered /\ ~events[c][2].delivered
    /\ events[c][2].bytes_uploaded = 2

\* ------------------------------------------------------------ create_operator
\* create_operator has returned an operator
OperatorBuilt == op_pc = "done" /\ op_call.op = "create_operator" /\ op_ret.tag = "Ok"

\* C12: create_operator enables virtual-host-style addressing exactly when
\* use_path_style is false, for every provider, also for the one that gets the
\* batch-delete cap; the cap of 700 is set for Cloudflare R2 whatever
\* use_path_style is, and for no other provider.
C12_AddressingUniform ==
  OperatorBuilt =>
    /\ op_ret.val.enable_virtual_host_style <=> ~op_call.connection.use_path_style
    /\ op_call.connection.provider = "cloudflare_r2" => op_ret.val.delete_max_size = Some(700)
    /\ op_call.connection.provider # "cloudflare_r2" => op_ret.val.delete_max_size = None

\* ------------------------------------------------------- object operations
RenameReturned ==
  /\ obj_pc = "done"
  /\ obj_call.op = "rename_object"
  /\ obj_call.old_key # obj_call.new_key

\* the copy went through and the delete of the source then failed
CopiedThenDeleteFailed ==
  /\ Len(obj_calls) = 2
  /\ obj_calls[1].call = "copy" /\ obj_calls[1].ok
  /\ obj_calls[2].call = "delete" /\ ~obj_calls[2].ok

\* C1: rename_object with old # new: on success old no longer exists and new
\* holds exactly the body (and so the size) old had before the call; when the
\* copy succeeds and the delete of old fails, the call returns an error and
\* both old and new exist.
C1_RenameMovesOrKeepsBoth ==
  RenameReturned =>
    /\ obj_ret.tag = "Ok" =>
         /\ pre_store[obj_call.old_key] # None
         /\ store[obj_call.old_key] = None
         /\ store[obj_call.new_key] = pre_store[obj_call.old_key]
         /\ ContentLength(store[obj_call.new_key]) = ContentLength(pre_store[obj_call.old_key])
    /\ CopiedThenDeleteFailed =>
         /\ obj_ret.tag = "Err"
         /\ store[obj_call.old_key] # None
         /\ store[obj_call.new_key] # None
         /\ store[obj_call.new_key] = store[obj_call.old_key]

\* C1 witness: a successful rename onto a key that held another body.
C1_Witness ==
  /\ RenameReturned
  /\ obj_ret.tag = "Ok"
  /\ pre_store[obj_call.new_key] # None
  /\ pre_store[obj_call.new_key] # pre_store[obj_call.old_key]
  /\ store[obj_call.new_key] = Some(<<195, 169>>)

TextReturned == obj_pc = "done" /\ obj_call.op = "get_object_text"
StatSucceeded == obj_calls # <<>> /\ obj_calls[1].call = "stat" /\ obj_calls[1].ok
ReadIssued == \E i \in 1..Len(obj_calls) : obj_calls[i].call = "read"

\* C8: get_object_content_as_text fetches metadata first; when the size is
\* greater than max_size it fails with the SizeLimitExceeded kind and issues
\* no body read; when the size is at most max_size it reads the body.
C8_SizeLimitExceededKind ==
  (TextReturned /\ StatSucceeded) =>
    /\ obj_calls[1].call = "stat"
    /\ size > obj_call.max_size =>
         /\ obj_ret.tag = "Err"
         /\ obj_ret.kind = "SizeLimitExceeded"
         /\ ~ReadIssued
    /\ size <= obj_call.max_size => ReadIssued

\* the kinds AppError uses for failures of the backend and of local I/O
BackendOrIoKinds == {"S3Error", "OpendalError", "IoError"}

\* C9: when the size is within max_size and the bytes are not valid UTF-8,
\* get_object_content_as_text fails with the EncodingError kind, a kind that
\* is not the one used for backend or I/O failures.
C9_EncodingErrorKind ==
  ( /\ TextReturned
    /\ Len(obj_calls) = 2
    /\ obj_calls[2].call = "read" /\ obj_calls[2].ok
    /\ ~Utf8Valid(store[obj_call.key][1]) ) =>
      /\ obj_ret.tag = "Err"
      /\ obj_ret.kind = "EncodingError"
      /\ obj_ret.kind \notin BackendOrIoKinds

FolderReturned == obj_pc = "done" /\ obj_call.op = "create_folder"
\* the key both "a" and "a/" name as a folder
FolderKey == <<"a", "/">>

\* C13: create_folder(path) issues one write of a zero-length object at path
\* with '/' appended unless path already ends with '/': create_folder("a") and
\* create_folder("a/") both store the key "a/" and nothing else, and a call on
\* a bucket that already holds the folder leaves the bucket as it was.
C13_CreateFolderKey ==
  FolderReturned =>
    /\ obj_call.path \in {<<"a">>, <<"a", "/">>}
    /\ obj_calls = <<Call("write", FolderKey, obj_ret.tag = "Ok")>>
    /\ \A k \in ObjectKeys \ {FolderKey} : store[k] = pre_store[k]
    /\ obj_ret.tag = "Ok" => store[FolderKey] = Some(<<>>)
    /\ obj_ret.tag = "Err" => store = pre_store
    /\ (obj_ret.tag = "Ok" /\ pre_store[FolderKey] = Some(<<>>)) => store = pre_store

\* C13 witness: create_folder("a") on a bucket where the folder "a/" and the
\* object "a" already exist.
C13_Witness ==
  /\ FolderReturned
  /\ obj_ret.tag = "Ok"
  /\ obj_call.path = <<"a">>
  /\ pre_store[FolderKey] = Some(<<>>)
  /\ pre_store[<<"a">>] # None
  /\ store = pre_store

DownloadReturned == obj_pc = "done" /\ obj_call.op = "download_object"
UploadReturned == obj_pc = "done" /\ obj_call.op = "upload_object"
\* the download reads the key of the upload on record
ReadsUploaded == uploaded # None /\ uploaded[1].key = obj_call.key

\* C14: download_object(k) after a successful upload_object(k, b), with no
\* write or delete of k in between, returns exactly b (or fails with the
\* object b still in place); a successful upload_object leaves k holding the
\* uploaded bytes whatever k held before, and no other key changed.
C14_UploadDownloadRoundTrip ==
  /\ (DownloadReturned /\ ReadsUploaded) =>
       /\ store[obj_call.key] = Some(uploaded[1].data)
       /\ obj_ret.tag = "Ok" => obj_ret.val = uploaded[1].data
       /\ obj_calls[1].ok => obj_ret.tag = "Ok"
  /\ (UploadReturned /\ obj_ret.tag = "Ok") =>
       /\ store[obj_call.key] = Some(obj_call.data)
       /\ \A k \in ObjectKeys \ {obj_call.key} : store[k] = pre_store[k]

\* C14 witness: the three bytes of U+20AC come back from a download.
C14_Witness ==
  /\ DownloadReturned
  /\ ReadsUploaded
  /\ obj_ret.tag = "Ok"
  /\ obj_ret.val = <<226, 130, 172>>

RenameCalled == obj_call.op = "rename_object" /\ obj_pc \in {"rename_copied", "done"}

ImportReturned == conn_pc = "done" /\ conn_call.op = "import_connections"

\* C7: import_connections of a blob whose version is not 1 returns an error
\* and leaves the registry and the persisted connection file as they were: no
\* connection of the blob is inserted.
C7_ImportRejectsOtherVersions ==
  (ImportReturned /\ conn_call.blob.valid /\ conn_call.blob.version # 1) =>
    /\ conn_ret.tag = "Err"
    /\ connections = pre_connections
    /\ config_file = pre_config_file

\* every secret a command was given
AllSecrets == Secrets \cup {"r0tated"}
\* a persisted or exported record that holds a secret key
HoldsSecret(rec) ==
  \/ "secret_key" \in DOMAIN rec
  \/ \E f \in DOMAIN rec \cap EarlyFields : rec[f] \in AllSecrets
ExportReturned == conn_pc = "done" /\ conn_call.op = "export_connections"

\* C17: after any sequence of create_connection, update_connection,
\* delete_connection, import_connections and export_connections, no record of
\* the persisted connection file and no record of an export blob holds a
\* secret key, and no record returned by a command does either.
C17_SecretsStayOut ==
  /\ \A id \in DOMAIN config_file : ~HoldsSecret(config_file[id])
  /\ ExportReturned =>
       \A i \in 1..Len(conn_ret.val.connections) : ~HoldsSecret(conn_ret.val.connections[i])

\* C17 witness: an export of a connection whose secret was rotated and whose
\* record is in the file.
C17_Witness ==
  /\ ExportReturned
  /\ \E id \in DOMAIN connections :
       /\ connections[id].secret_key = "r0tated"
       /\ keyring[id] = "r0tated"
       /\ id \in DOMAIN config_file
       /\ config_file[id].updated_at = connections[id].updated_at
  /\ Len(conn_ret.val.connections) >= 1

\* C7 witness: a version-2 blob with two connections refused by a registry
\* that already holds one.
C7_Witness ==
  /\ ImportReturned
  /\ conn_call.blob.valid
  /\ conn_call.blob.version = 2
  /\ Len(conn_call.blob.connections) = 2
  /\ conn_ret.tag = "Err"
  /\ DOMAIN connections # {}

\* the objects and the prefixes a run of entries is classified into
ObjectsAmong(entries) ==
  LET kept == SelectSeq(entries, LAMBDA e : ~(e.is_dir \/ EndsWithSlash(e.path)))
  IN  [i \in 1..Len(kept) |-> ToS3Object(kept[i])]
PrefixesAmong(entries) ==
  LET kept == SelectSeq(entries, LAMBDA e : e.is_dir \/ EndsWithSlash(e.path))
  IN  [i \in 1..Len(kept) |-> kept[i].path]
FirstEntries(entries, n) == SubSeq(entries, 1, Min(n, Len(entries)))
IsInitialSegment(s, t) == Len(s) <= Len(t) /\ s = SubSeq(t, 1, Len(s))

\* C21: list_objects has no continuation input and its marker holds only the
\* count: every call returns the page made of the first `limit` entries of the
\* stream the backend serves for the prefix, so a repeated call on an unchanged
\* backend returns the same page and no call returns an entry that lies beyond
\* the first `limit` entries.
C21_AlwaysFirstPage ==
  ListReturned =>
    LET first == FirstEntries(listed, limit) IN
    /\ list_ret.val.objects = ObjectsAmong(first)
    /\ list_ret.val.prefixes = PrefixesAmong(first)
    /\ list_ret.val.continuation_token \in {None, Some(OffsetToken(Len(first)))}

\* C21 witness: a page cut at a limit of at least one entry, with more of the
\* stream behind it.
C21_Witness ==
  /\ ListReturned
  /\ limit >= 1
  /\ Len(listed) > limit
  /\ list_ret.val.continuation_token = Some(OffsetToken(limit))

\* C22: list_objects and list_all_objects classify alike: an entry is a prefix
\* exactly when its metadata marks a directory or its path ends with '/', each
\* entry lands in exactly one list, in stream order; the page's objects and
\* prefixes are initial segments of list_all_objects' lists and equal them
\* when the page is not truncated; list_all_objects never reports truncation
\* or a marker.
C22_PageRefinesListAll ==
  ListReturned =>
    LET all == ListAllObjects(listed).val
        page == list_ret.val
    IN  /\ all.objects = ObjectsAmong(listed)
        /\ all.prefixes = PrefixesAmong(listed)
        /\ PageSize(all) = Len(listed)
        /\ ~all.is_truncated /\ all.continuation_token = None
        /\ IsInitialSegment(page.objects, all.objects)
        /\ IsInitialSegment(page.prefixes, all.prefixes)
        /\ PageSize(page) = count
        /\ ~page.is_truncated => page.objects = all.objects /\ page.prefixes = all.prefixes

\* C22 witness: a truncated page that holds an object and a prefix named only
\* by its trailing '/', and leaves an entry to list_all_objects alone.
C22_Witness ==
  /\ ListReturned
  /\ list_ret.val.is_truncated
  /\ list_ret.val.objects # <<>>
  /\ <<"d", "/">> \in {list_ret.val.prefixes[i] : i \in 1..Len(list_ret.val.prefixes)}
  /\ PageSize(ListAllObjects(listed).val) > PageSize(list_ret.val)

\* C25: get_bucket_stats counts every object exactly once and ends for every
\* finite listing, also when the backend answers is_truncated = true without a
\* next continuation token: once a request has been answered the loop never
\* sends a request without a token again (never asks for the first page
\* twice), and the counts it returns are those of the listing.
C25_StatsCountsOnce ==
  /\ (admin_pc = "stats_loop" /\ requests > 0) => IsSome(continuation_token)
  /\ StatsReturned =>
       /\ admin_ret.val.object_count = Len(listing)
       /\ admin_ret.val.total_size = SumSizes(listing)

DeleteObjectsReturned == obj_pc = "done" /\ obj_call.op = "delete_objects"
\* the keys whose delete was issued and went through
DeletedKeys == {obj_calls[i].key : i \in {j \in 1..Len(obj_calls) : obj_calls[j].ok}}

\* C23: delete_objects issues its deletes one at a time in list order and stops
\* at the first failure: it then returns that delete's error, every key before
\* it has been deleted and no delete was issued for a key after it; it returns
\* success only when a delete was issued and went through for every key.
C23_DeletesStopAtFirstFailure ==
  /\ obj_pc \in {"delete_loop", "done"} /\ obj_call.op = "delete_objects" =>
       /\ Len(obj_calls) <= Len(obj_call.keys)
       /\ \A i \in 1..Len(obj_calls) :
            /\ obj_calls[i].call = "delete"
            /\ obj_calls[i].key = obj_call.keys[i]
            /\ i < Len(obj_calls) => obj_calls[i].ok
       /\ \A k \in ObjectKeys :
            store[k] = IF k \in DeletedKeys THEN None ELSE pre_store[k]
       /\ obj_pc = "delete_loop" =>
            /\ Len(obj_calls) < Len(obj_call.keys)
            /\ \A i \in 1..Len(obj_calls) : obj_calls[i].ok
  /\ DeleteObjectsReturned =>
       /\ (obj_calls # <<>> /\ ~obj_calls[Len(obj_calls)].ok) =>
            /\ obj_ret = Err("OpendalError", "backend")
            /\ \A i \in 1..(Len(obj_calls) - 1) : store[obj_call.keys[i]] = None
       /\ obj_ret.tag = "Ok" =>
            /\ Len(obj_calls) = Len(obj_call.keys)
            /\ \A i \in 1..Len(obj_calls) : obj_calls[i].ok
            /\ obj_call.deleted_count = Len(obj_call.keys)
            /\ \A i \in 1..Len(obj_call.keys) : store[obj_call.keys[i]] = None

\* C23 witness: three keys, the first delete removed an object, the second
\* failed, and the third key's object is still there with no delete issued.
C23_Witness ==
  /\ DeleteObjectsReturned
  /\ obj_call.keys = << <<"a">>, <<"b">>, <<"b">> >>
  /\ Len(obj_calls) = 2
  /\ pre_store[<<"a">>] # None /\ store[<<"a">>] = None
  /\ ~obj_calls[2].ok
  /\ store[<<"b">>] # None
  /\ obj_ret.tag = "Err"

\* C24: after a successful rename_object the new key exists and holds the
\* content the old key had before the call, for every pair of keys, the pair
\* with old_key = new_key included.
C24_RenameKeepsContent ==
  (obj_pc = "done" /\ obj_call.op = "rename_object" /\ obj_ret.tag = "Ok") =>
    /\ store[obj_call.new_key] # None
    /\ store[obj_call.new_key] = pre_store[obj_call.old_key]

\* C26: get_object_content_as_text never returns a text longer than max_size
\* bytes, also when the key is overwritten with a larger object between the
\* stat and the read.
C26_TextWithinMaxSize ==
  (TextReturned /\ obj_ret.tag = "Ok") => Len(obj_ret.val) <= obj_call.max_size

ConnReturned(op) == conn_pc = "done" /\ conn_call.op = op

\* C27: when create_connection returns an error, from the secret store or
\* from the save, the registry is what it was before the call and holds no
\* entry for the new id.
C27_CreateErrorLeavesRegistry ==
  (ConnReturned("create_connection") /\ conn_ret.tag = "Err") =>
    /\ connections = pre_connections
    /\ conn_call.id \notin DOMAIN connections

\* C28: when update_connection returns an error (unknown id, secret store
\* failure, save failure), the registry's records are exactly what they were
\* before the call.
C28_UpdateErrorLeavesRecord ==
  (ConnReturned("update_connection") /\ conn_ret.tag = "Err") =>
    connections = pre_connections

\* C29: from a registry and a file that hold the same ids, after any sequence
\* of create, update, delete and import commands that each returned success,
\* the ids in connections.json are the ids in the registry.
C29_FileIdsAreRegistryIds ==
  DOMAIN config_file = DOMAIN connections

\* the registry as connections.json holds it: every record without its secret
SavedImage(reg) == [id \in DOMAIN reg |-> ToS3Connection(reg[id])]

\* C30: create, update, delete and import carry out the load-modify-write of
\* connections.json entirely while holding the registry lock: a caller that
\* has loaded the file or is about to holds the lock, so at most one caller is
\* between its load and its write, and no persisted update is lost: whenever
\* no caller is inside a save, the file is the image of the registry.
C30_SaveUnderRegistryLock ==
  /\ \A c \in Callers : save_pc[c] \in {"load", "write"} => connections_lock = c
  /\ Cardinality({c \in Callers : save_pc[c] \in {"load", "write"}}) <= 1
  /\ (\A c \in Callers : save_pc[c] \notin {"load", "write"}) =>
       config_file = SavedImage(connections)

\* C30 witness: a caller's second save finds the first one's record in the
\* file while the other caller waits for the lock with a command of its own.
C30_Witness ==
  \E c, d \in Callers :
    /\ c # d
    /\ save_pc[c] = "write"
    /\ connections_lock = c
    /\ DOMAIN loaded[c] # {}
    /\ save_call[c].id \notin DOMAIN loaded[c]
    /\ save_pc[d] = "lock"
    /\ save_call[d].op = "delete_connection"

====
